---------------------------- MODULE Spec2Model ----------------------------
(***************************************************************************)
(* A model of cognusion/dnscache: the Simple (unbounded map) cache back-end *)
(* of cache/map.go, the refresh strategies of cache/refresh.go              *)
(* (NoRefresh, LinearRefresh, BatchRefresh) and the Resolver facade with    *)
(* its auto-refresh loop of dnscache.go.                                    *)
(*                                                                         *)
(* Names are the integers 1..MaxNames, so that the sorted key order of      *)
(* Simple.Keys is the numeric order.  An address list is a sequence of      *)
(* integers; Go's nil slice and the empty slice are both <<>>.  Time is     *)
(* discrete: every pending timer is a countdown that Tick decrements, and   *)
(* a goroutine blocked in a select wakes at the first tick at which one of  *)
(* its cases is ready (Tick is disabled while a blocked select has a ready  *)
(* case); when several cases are ready the select takes any of them.        *)
(***************************************************************************)
EXTENDS Integers, Sequences, FiniteSets, TLC

\* ------------------------------------------------------------------ bounds
MaxNames == 3
MaxSleep == 2
MaxTimeout == 1
MaxBatch == 2
MaxRate == 1
MaxOptions == 3

Names == 1..MaxNames

\* ------------------------------------------------------------- values
\* The resolution primitive: for a name it either fails or yields that
\* name's address list.  The model's resolver answers name n with <<n>>.
NoSuchHost == "no such host"
NilErr == "nil"

IPsOf(n) == <<n>>

\* What one call of the resolver may return: (ips, err).
ResolverResults(n) ==
    { [ips |-> IPsOf(n), err |-> NilErr], [ips |-> <<>>, err |-> NoSuchHost] }

\* The values callers seed with Add: a placeholder (empty list) or a
\* hand-crafted list that no resolver call yields.
AddVals == { <<>>, <<9, 8>> }

\* ------------------------------------------------------------- options
\* A ConfigOption is (Key, Value); Value is dynamically typed (any).  The
\* type tag t is what a Go type assertion tests.
ConfigResolver == "Resolver"
ConfigRefreshShuffle == "RefreshShuffle"
ConfigRefreshSleepTime == "RefreshSleepTime"
ConfigRefreshType == "RefreshType"
ConfigRefreshBatchSize == "RefreshBatchSize"
ConfigRefreshTimeout == "RefreshTimeout"
ConfigNotAnOption == "NotAnOption"
ConfigSize == "CacheSize"
ConfigItemTTL == "ItemTTL"
ConfigAllowRefresh == "AllowRefresh"

RefreshOff == "RefreshOff"
RefreshLinear == "RefreshLinear"
RefreshBatch == "RefreshBatch"

BoolV(b) == [t |-> "bool", b |-> b, n |-> 0, s |-> ""]
DurV(d) == [t |-> "duration", b |-> FALSE, n |-> d, s |-> ""]
IntV(i) == [t |-> "int", b |-> FALSE, n |-> i, s |-> ""]
RTypeV(r) == [t |-> "RefreshType", b |-> FALSE, n |-> 0, s |-> r]
FuncV == [t |-> "ResolverFunc", b |-> FALSE, n |-> 0, s |-> ""]

NewConfigOption(key, value) == [Key |-> key, Value |-> value]

\* Errors of the option system.
NoError == [kind |-> "nil", key |-> ""]
ErrorConfigKeyUnsupported == [kind |-> "unsupported", key |-> ""]
KeyError(key) == [kind |-> "wrongtype", key |-> key]
RequiredError(key) == [kind |-> "required", key |-> key]
InstantiateError == [kind |-> "instantiate", key |-> ""]

\* ConfigKey.IsIn: the value of the first option with this key.
RECURSIVE IsIn(_, _)
IsIn(key, in) ==
    IF in = <<>> THEN [ok |-> FALSE, v |-> IntV(0)]
    ELSE IF Head(in).Key = key THEN [ok |-> TRUE, v |-> Head(in).Value]
    ELSE IsIn(key, Tail(in))

\* ------------------------------------------------------- Simple: config
\* The configured fields of a Simple.  refresh is the stored RefreshFunc,
\* named by the strategy it is.
SimpleDefaults ==
    [ refreshShuffle |-> TRUE,
      refreshSleepTime |-> 1,
      refresh |-> "LinearRefresh",
      refreshType |-> RefreshLinear,
      refreshBatchSize |-> 15 ]

RefreshFuncOf(v, old) ==
    CASE v = RefreshOff -> "NoRefresh"
      [] v = RefreshLinear -> "LinearRefresh"
      [] v = RefreshBatch -> "BatchRefresh"
      [] OTHER -> old

\* Simple.config: validate and apply one option; (fields, error).
SimpleConfigTakesAnything(r, opt) == [r |-> r, err |-> NoError]

SimpleConfig(r, opt) ==
    CASE opt.Key = ConfigResolver ->
            IF opt.Value.t = "ResolverFunc" THEN [r |-> r, err |-> NoError]
            ELSE [r |-> r, err |-> KeyError(opt.Key)]
      [] opt.Key = ConfigRefreshShuffle ->
            IF opt.Value.t = "bool"
            THEN [r |-> [r EXCEPT !.refreshShuffle = opt.Value.b], err |-> NoError]
            ELSE [r |-> r, err |-> KeyError(opt.Key)]
      [] opt.Key = ConfigRefreshSleepTime ->
            IF opt.Value.t = "duration"
            THEN [r |-> [r EXCEPT !.refreshSleepTime = opt.Value.n], err |-> NoError]
            ELSE [r |-> r, err |-> KeyError(opt.Key)]
      [] opt.Key = ConfigRefreshType ->
            IF opt.Value.t = "RefreshType"
            THEN [r |-> [r EXCEPT !.refreshType = opt.Value.s,
                                  !.refresh = RefreshFuncOf(opt.Value.s, r.refresh)],
                  err |-> NoError]
            ELSE [r |-> r, err |-> KeyError(opt.Key)]
      [] opt.Key = ConfigRefreshBatchSize ->
            IF opt.Value.t = "int"
            THEN [r |-> [r EXCEPT !.refreshBatchSize = opt.Value.n], err |-> NoError]
            ELSE [r |-> r, err |-> KeyError(opt.Key)]
      [] OTHER -> [r |-> r, err |-> ErrorConfigKeyUnsupported]

\* NewSimple: the defaults, then every option in order; the first error
\* aborts construction (ok = FALSE: no instance).
RECURSIVE ApplySimple(_, _)
ApplySimple(r, options) ==
    IF options = <<>> THEN [ok |-> TRUE, r |-> r, err |-> NoError]
    ELSE LET c == SimpleConfig(r, Head(options))
         IN IF c.err # NoError THEN [ok |-> FALSE, r |-> SimpleDefaults, err |-> c.err]
            ELSE ApplySimple(c.r, Tail(options))

NewSimple(options) == ApplySimple(SimpleDefaults, options)

\* ---------------------------------------------------------- LRU: config
\* The configured fields of an LRU.  size and expirable describe the
\* hashicorp cache the constructor chose: expirable.NewLRU when ItemTTL is
\* given, lru.New2Q otherwise.
LRUDefaults ==
    [ allowRefresh |-> TRUE,
      refreshShuffle |-> TRUE,
      refreshSleepTime |-> 1,
      size |-> 0,
      expirable |-> FALSE ]

\* LRU.config: validate and apply one option; (fields, error).
LRUConfigBlamesNoKey(r, opt) ==
    IF opt.Key = ConfigAllowRefresh /\ opt.Value.t = "bool"
    THEN [r |-> [r EXCEPT !.allowRefresh = opt.Value.b], err |-> NoError]
    ELSE [r |-> r, err |-> ErrorConfigKeyUnsupported]

LRUConfig(r, opt) ==
    CASE opt.Key = ConfigResolver ->
            IF opt.Value.t = "ResolverFunc" THEN [r |-> r, err |-> NoError]
            ELSE [r |-> r, err |-> KeyError(opt.Key)]
      [] opt.Key = ConfigRefreshShuffle ->
            IF opt.Value.t = "bool"
            THEN [r |-> [r EXCEPT !.refreshShuffle = opt.Value.b], err |-> NoError]
            ELSE [r |-> r, err |-> KeyError(opt.Key)]
      [] opt.Key = ConfigRefreshSleepTime ->
            IF opt.Value.t = "duration"
            THEN [r |-> [r EXCEPT !.refreshSleepTime = opt.Value.n], err |-> NoError]
            ELSE [r |-> r, err |-> KeyError(opt.Key)]
      [] opt.Key = ConfigAllowRefresh ->
            IF opt.Value.t = "bool"
            THEN [r |-> [r EXCEPT !.allowRefresh = opt.Value.b], err |-> NoError]
            ELSE [r |-> r, err |-> KeyError(opt.Key)]
      [] opt.Key = ConfigItemTTL ->
            IF opt.Value.t = "duration" THEN [r |-> r, err |-> NoError]
            ELSE [r |-> r, err |-> KeyError(opt.Key)]
      [] opt.Key = ConfigSize ->
            IF opt.Value.t = "int" THEN [r |-> r, err |-> NoError]
            ELSE [r |-> r, err |-> KeyError(opt.Key)]
      [] OTHER -> [r |-> r, err |-> ErrorConfigKeyUnsupported]

RECURSIVE ApplyLRU(_, _)
ApplyLRU(r, options) ==
    IF options = <<>> THEN [ok |-> TRUE, r |-> r, err |-> NoError]
    ELSE LET c == LRUConfig(r, Head(options))
         IN IF c.err # NoError THEN [ok |-> FALSE, r |-> LRUDefaults, err |-> c.err]
            ELSE ApplyLRU(c.r, Tail(options))

NoInstance(err) == [ok |-> FALSE, r |-> LRUDefaults, err |-> err]

\* NewLRU: the required CacheSize first, then ItemTTL and the choice of the
\* hashicorp cache (lru.New2Q refuses a size below 1), then the defaults
\* and every option in order.
NewLRUAppliesFirst(options) ==
    LET size == IsIn(ConfigSize, options)
        a == ApplyLRU(LRUDefaults, options)
    IN IF ~a.ok THEN a
       ELSE IF ~size.ok THEN NoInstance(RequiredError(ConfigSize))
       ELSE a

NewLRU(options) ==
    LET size == IsIn(ConfigSize, options)
        ttl == IsIn(ConfigItemTTL, options)
    IN IF ~size.ok THEN NoInstance(RequiredError(ConfigSize))
       ELSE IF size.v.t # "int" THEN NoInstance(KeyError(ConfigSize))
       ELSE IF ttl.ok /\ ttl.v.t # "duration" THEN NoInstance(KeyError(ConfigItemTTL))
       ELSE IF ~ttl.ok /\ size.v.n < 1 THEN NoInstance(InstantiateError)
       ELSE ApplyLRU([LRUDefaults EXCEPT !.size = size.v.n, !.expirable = ttl.ok],
                     options)

\* ------------------------------------------------------- Simple: the map
\* The table is a function whose domain is the set of resident names.
EmptyCache == [x \in {} |-> <<>>]

\* r.cache[address] = ips
Upsert(c, address, ips) ==
    [x \in (DOMAIN c) \cup {address} |-> IF x = address THEN ips ELSE c[x]]

\* delete(r.cache, address)
Delete(c, address) == [x \in (DOMAIN c) \ {address} |-> c[x]]

\* Simple.Get: (value, found); the zero value when absent.
Get(c, address) ==
    IF address \in DOMAIN c THEN <<c[address], TRUE>> ELSE <<<<>>, FALSE>>

\* Simple.Contains
Contains(c, address) == address \in DOMAIN c

\* Simple.Len
Len_(c) == Cardinality(DOMAIN c)

\* slices.Sorted: the ascending sequence of a finite set of names.
RECURSIVE Sorted(_)
Sorted(S) ==
    IF S = {} THEN <<>>
    ELSE LET m == CHOOSE x \in S : \A y \in S : x <= y
         IN <<m>> \o Sorted(S \ {m})

\* Simple.Keys
KeysDescending(c) ==
    LET k == Sorted(DOMAIN c) IN [i \in 1..Len(k) |-> k[Len(k) + 1 - i]]

Keys(c) == Sorted(DOMAIN c)


\* ================================================================ state
VARIABLES
    conf,    \* the configured fields of the Simple back-end
    cache,   \* Simple.cache, the resident table
    sdone,   \* Simple.done: "open", "closed", or "panic" (closed twice)
    cl,      \* a goroutine calling Fetch or Lookup on the back-end
    rp,      \* the goroutine inside Simple.Refresh: one refresh pass
    tasks,   \* the goroutines BatchRefresh dispatched (wgResolver), by name
    lp,      \* the facade's background goroutine (autoRefreshTimeout)
    rdone,   \* Resolver.done and the progress of Resolver.Close
    obs,     \* what an observer of the current refresh pass has seen
    lru,     \* an LRU back-end: its configured fields and its table
    oc       \* a call into the option system: its arguments and its result

confVars == <<conf, lru, oc>>
cacheVars == <<cache>>
callerVars == <<cl>>
passVars == <<rp, tasks, obs>>
loopVars == <<lp>>
doneVars == <<sdone, rdone>>
vars == <<conf, cache, sdone, cl, rp, tasks, lp, rdone, obs, lru, oc>>

\* A Go program that panics is gone: closing a closed channel and the panic
\* of Simple.Refresh end every goroutine.
Alive == sdone # "panic" /\ rdone.ch # "panic" /\ rp.pc # "panic"

\* ------------------------------------------------------------- callers
\* resident: whether the name was in the table when the call began (for
\* Fetch, the outcome of its probe; for Purge, whether the table held
\* anything).  res: what the resolver returned.
NoResult == [ips |-> <<>>, err |-> NilErr]

\* An optional address (net.IP, nil when absent), its string and an error.
NoOne == [ip |-> <<>>, str |-> "", err |-> NilErr]

\* via: the method of the facade the call came through, if any; one: what
\* that method is about to return.
IdleCaller ==
    [ pc |-> "idle", op |-> "", name |-> 0, resident |-> FALSE, ncalls |-> 0,
      res |-> NoResult, ret |-> NoResult, via |-> "", one |-> NoOne ]

\* Simple.Fetch: the probe under the read lock.  A hit returns the stored
\* value; a miss goes on to Lookup, which first calls the resolver.
FetchProbeMiss(c, address) ==
    [ IdleCaller EXCEPT !.pc = "resolve", !.op = "Fetch", !.name = address,
                        !.resident = address \in DOMAIN c ]

FetchProbe(c, address) ==
    IF address \in DOMAIN c
    THEN [ IdleCaller EXCEPT !.pc = "ret", !.op = "Fetch", !.name = address,
                             !.resident = TRUE,
                             !.ret = [ips |-> c[address], err |-> NilErr] ]
    ELSE [ IdleCaller EXCEPT !.pc = "resolve", !.op = "Fetch", !.name = address ]

FetchCall(address) ==
    /\ Alive
    /\ cl.pc = "idle"
    /\ cl' = FetchProbe(cache, address)
    /\ UNCHANGED <<confVars, cacheVars, passVars, loopVars, doneVars>>

\* Simple.Lookup: always a live call, whatever the table holds.
LookupEnterCached(c, address) ==
    IF address \in DOMAIN c
    THEN [ IdleCaller EXCEPT !.pc = "ret", !.op = "Lookup", !.name = address,
                             !.resident = TRUE,
                             !.ret = [ips |-> c[address], err |-> NilErr] ]
    ELSE [ IdleCaller EXCEPT !.pc = "resolve", !.op = "Lookup", !.name = address ]

LookupEnter(c, address) ==
    [ IdleCaller EXCEPT !.pc = "resolve", !.op = "Lookup", !.name = address,
                        !.resident = address \in DOMAIN c ]

LookupCall(address) ==
    /\ Alive
    /\ cl.pc = "idle"
    /\ cl' = LookupEnter(cache, address)
    /\ UNCHANGED <<confVars, cacheVars, passVars, loopVars, doneVars>>

\* ips, err := r.resolver(address); if err != nil { return nil, err }
LookupResolvedKeepGoing(c, r) ==
    [ c EXCEPT !.pc = "store", !.ncalls = @ + 1, !.res = r ]

LookupResolved(c, r) ==
    IF r.err # NilErr
    THEN [ c EXCEPT !.pc = "ret", !.ncalls = @ + 1, !.res = r,
                    !.ret = [ips |-> <<>>, err |-> r.err] ]
    ELSE [ c EXCEPT !.pc = "store", !.ncalls = @ + 1, !.res = r ]

ResolverReturn ==
    /\ Alive
    /\ cl.pc = "resolve"
    /\ \E r \in ResolverResults(cl.name) : cl' = LookupResolved(cl, r)
    /\ UNCHANGED <<confVars, cacheVars, passVars, loopVars, doneVars>>

\* r.lock.Lock(); r.cache[address] = ips; r.lock.Unlock(); return ips, nil
LookupStoredNowhere(c, address, ips) == c

LookupStored(c, address, ips) == Upsert(c, address, ips)

LookupStore ==
    /\ Alive
    /\ cl.pc = "store"
    /\ cache' = LookupStored(cache, cl.name, cl.res.ips)
    /\ cl' = [cl EXCEPT !.pc = "ret", !.ret = [ips |-> cl.res.ips, err |-> NilErr]]
    /\ UNCHANGED <<confVars, passVars, loopVars, doneVars>>

\* The call has returned; the goroutine is free for its next call.
CallerReturn ==
    /\ Alive
    /\ cl.pc = "ret"
    /\ cl' = IdleCaller
    /\ UNCHANGED <<confVars, cacheVars, passVars, loopVars, doneVars>>

\* ------------------------------------------ Add, Remove, Purge (atomic)
\* Each runs wholly under the write lock, from any other goroutine.
AddedIfAbsent(c, address, ips) ==
    IF address \in DOMAIN c THEN c ELSE Upsert(c, address, ips)

Added(c, address, ips) == Upsert(c, address, ips)

RemovedWithTheRest(c, address) ==
    IF address \in DOMAIN c THEN EmptyCache ELSE c

Removed(c, address) == Delete(c, address)

PurgedFirstOnly(c) ==
    IF DOMAIN c = {} THEN c
    ELSE Delete(c, CHOOSE x \in DOMAIN c : \A y \in DOMAIN c : x <= y)

Purged(c) == EmptyCache

InPass == rp.pc \notin {"idle", "returned", "panic"}

Snapshot == { rp.addresses[k] : k \in 1..Len(rp.addresses) }

Add(address, ips) ==
    /\ Alive
    /\ cache' = Added(cache, address, ips)
    /\ UNCHANGED <<confVars, callerVars, passVars, loopVars, doneVars>>

Remove(address) ==
    /\ Alive
    /\ cache' = Removed(cache, address)
    /\ UNCHANGED <<confVars, callerVars, passVars, loopVars, doneVars>>

Purge ==
    /\ Alive
    /\ cache' = Purged(cache)
    /\ UNCHANGED <<confVars, callerVars, passVars, loopVars, doneVars>>

\* The same three as calls of the goroutine that also fetches and looks up.
AddCall(address, ips) ==
    /\ Alive
    /\ cl.pc = "idle"
    /\ cache' = Added(cache, address, ips)
    /\ cl' = [ IdleCaller EXCEPT !.pc = "ret", !.op = "Add", !.name = address,
                                 !.resident = Contains(cache, address) ]
    /\ UNCHANGED <<confVars, passVars, loopVars, doneVars>>

RemoveCall(address) ==
    /\ Alive
    /\ cl.pc = "idle"
    /\ cache' = Removed(cache, address)
    /\ cl' = [ IdleCaller EXCEPT !.pc = "ret", !.op = "Remove", !.name = address,
                                 !.resident = Contains(cache, address) ]
    /\ UNCHANGED <<confVars, passVars, loopVars, doneVars>>

PurgeCall ==
    /\ Alive
    /\ cl.pc = "idle"
    /\ cache' = Purged(cache)
    /\ cl' = [ IdleCaller EXCEPT !.pc = "ret", !.op = "Purge",
                                 !.resident = Len_(cache) > 0 ]
    /\ UNCHANGED <<confVars, passVars, loopVars, doneVars>>

\* ------------------------------------------------------ initial states
IdlePass ==
    [ pc |-> "idle", owner |-> "", strategy |-> "",
      shuffle |-> FALSE, sleep |-> 0, timeout |-> 0, batch |-> 0,
      addresses |-> <<>>, i |-> 0, total |-> 0, run |-> 0, res |-> NoResult,
      tm |-> 0, dl |-> -1, complete |-> FALSE, err |-> NoError ]

\* log: the names the current pass has called the resolver for (has
\* dispatched a lookup for), in order.
NoObs == [log |-> <<>>]

NoTasks == [n \in Names |-> "none"]

\* pc: "off" (never started), "wait" (in the select), "refresh" (in
\* cache.Refresh), "exited".  iv counts down to the firing of
\* time.After(rate).  passes observes the loop: the passes it has started
\* since r.done was closed.
NoLoop == [pc |-> "off", rate |-> 0, timeout |-> 0, iv |-> 0, passes |-> 0]

\* ret: what Resolver.Close has returned ("none" before it returns).
OpenDone == [ch |-> "open", pc |-> "idle", ret |-> "none"]

\* No LRU has been constructed; no call into the option system is open.
NoLRU == [made |-> FALSE, conf |-> LRUDefaults, cache |-> EmptyCache]

NoCall == [pc |-> "none", fn |-> "", options |-> <<>>, ok |-> FALSE, err |-> NoError]

\* The state after NewSimple(options) has returned an instance, with no
\* facade around it.
InitSimple(options) ==
    /\ NewSimple(options).ok
    /\ conf = NewSimple(options).r
    /\ cache = EmptyCache
    /\ sdone = "open"
    /\ cl = IdleCaller
    /\ rp = IdlePass
    /\ tasks = NoTasks
    /\ lp = NoLoop
    /\ rdone = OpenDone
    /\ obs = NoObs
    /\ lru = NoLRU
    /\ oc = NoCall

\* ----------------------------------------------------------------- time
\* A select blocks until one of its cases is ready.  tm counts down to the
\* firing of time.After(sleep), armed when the select is entered; dl counts
\* down to the context's deadline, armed when the pass begins (-1: none).
PassTimerReady == rp.pc = "select" /\ rp.tm = 0
PassDeadlineReady == rp.pc = "select" /\ rp.dl = 0
LoopTimerReady == lp.pc = "wait" /\ lp.iv = 0
LoopDoneReady == lp.pc = "wait" /\ rdone.ch = "closed"

Ticked(p) ==
    [ p EXCEPT !.dl = IF InPass /\ @ > 0 THEN @ - 1 ELSE @,
               !.tm = IF p.pc = "select" /\ @ > 0 THEN @ - 1 ELSE @ ]

LoopTicked(l) == [ l EXCEPT !.iv = IF l.pc = "wait" /\ @ > 0 THEN @ - 1 ELSE @ ]

Tick ==
    /\ Alive
    /\ ~PassTimerReady /\ ~PassDeadlineReady
    /\ ~LoopTimerReady /\ ~LoopDoneReady
    /\ \/ InPass /\ rp.dl > 0
       \/ rp.pc = "select" /\ rp.tm > 0
       \/ lp.pc = "wait" /\ lp.iv > 0
    /\ rp' = Ticked(rp)
    /\ lp' = LoopTicked(lp)
    /\ UNCHANGED <<confVars, cacheVars, callerVars, tasks, obs, doneVars>>

\* ------------------------------------------------- strategies: options
StrategyDefaults ==
    [err |-> NoError, shuffle |-> TRUE, sleep |-> 1, timeout |-> 0, batch |-> 0]

\* The option loop of LinearRefresh (withBatch = FALSE) and of BatchRefresh
\* (withBatch = TRUE, where RefreshBatchSize was applied before the loop).
RECURSIVE ParseOptions(_, _, _)
ParseOptions(options, acc, withBatch) ==
    IF options = <<>> THEN acc
    ELSE LET o == Head(options) IN
         CASE o.Key = ConfigRefreshShuffle ->
                IF o.Value.t = "bool"
                THEN ParseOptions(Tail(options), [acc EXCEPT !.shuffle = o.Value.b], withBatch)
                ELSE [acc EXCEPT !.err = KeyError(o.Key)]
           [] o.Key = ConfigRefreshSleepTime ->
                IF o.Value.t = "duration"
                THEN ParseOptions(Tail(options), [acc EXCEPT !.sleep = o.Value.n], withBatch)
                ELSE [acc EXCEPT !.err = KeyError(o.Key)]
           [] o.Key = ConfigRefreshTimeout ->
                IF o.Value.t = "duration"
                THEN ParseOptions(Tail(options), [acc EXCEPT !.timeout = o.Value.n], withBatch)
                ELSE [acc EXCEPT !.err = KeyError(o.Key)]
           [] o.Key = ConfigRefreshBatchSize /\ withBatch ->
                ParseOptions(Tail(options), acc, withBatch)
           [] OTHER -> [acc EXCEPT !.err = ErrorConfigKeyUnsupported]

LinearOptions(options) == ParseOptions(options, StrategyDefaults, FALSE)

BatchOptionsDefaultSize(options) ==
    LET v == IsIn(ConfigRefreshBatchSize, options) IN
    ParseOptions(options,
                 [StrategyDefaults EXCEPT !.batch = IF v.ok /\ v.v.t = "int"
                                                   THEN v.v.n ELSE MaxBatch],
                 TRUE)

BatchOptions(options) ==
    LET v == IsIn(ConfigRefreshBatchSize, options) IN
    IF ~v.ok THEN [StrategyDefaults EXCEPT !.err = RequiredError(ConfigRefreshBatchSize)]
    ELSE IF v.v.t # "int"
         THEN [StrategyDefaults EXCEPT !.err = KeyError(ConfigRefreshBatchSize)]
         ELSE ParseOptions(options, [StrategyDefaults EXCEPT !.batch = v.v.n], TRUE)

\* The options Simple.Refresh hands to its stored RefreshFunc.
RefreshOptions(r, timeout) ==
    IF r.refreshType # RefreshBatch
    THEN << NewConfigOption(ConfigRefreshShuffle, BoolV(r.refreshShuffle)),
            NewConfigOption(ConfigRefreshSleepTime, DurV(r.refreshSleepTime)),
            NewConfigOption(ConfigRefreshTimeout, DurV(timeout)) >>
    ELSE << NewConfigOption(ConfigRefreshShuffle, BoolV(r.refreshShuffle)),
            NewConfigOption(ConfigRefreshSleepTime, DurV(r.refreshSleepTime)),
            NewConfigOption(ConfigRefreshTimeout, DurV(timeout)),
            NewConfigOption(ConfigRefreshBatchSize, IntV(r.refreshBatchSize)) >>

\* rand.Shuffle: any permutation of the keys; without it, the keys as
\* Keys() gave them.
Orders(keys, shuffle) ==
    IF ~shuffle THEN {keys}
    ELSE { [k \in 1..Len(keys) |-> keys[f[k]]] :
             f \in { g \in [1..Len(keys) -> 1..Len(keys)] :
                       \A x, y \in 1..Len(keys) : x # y => g[x] # g[y] } }

\* context.WithCancel for timeout 0, else context.WithDeadline(now+timeout).
DeadlineNever(timeout) == -1

DeadlineOf(timeout) == IF timeout = 0 THEN -1 ELSE timeout

\* ------------------------------------------------- strategies: returns
\* The strategy's locals other than its configuration and key list are
\* dead once it has returned.
Returned(p, complete, err) ==
    [ p EXCEPT !.pc = "returned", !.complete = complete, !.err = err,
               !.i = 0, !.total = 0, !.run = 0, !.res = NoResult,
               !.tm = 0, !.dl = -1 ]

\* ---------------------------------------------------------- NoRefresh
NoRefreshBeginReadsKeys(p, owner) ==
    Returned([p EXCEPT !.owner = owner, !.strategy = "NoRefresh",
                       !.addresses = Keys(cache)], TRUE, NoError)

NoRefreshBegin(p, owner) ==
    Returned([p EXCEPT !.owner = owner, !.strategy = "NoRefresh"], TRUE, NoError)

\* ------------------------------------------------------- LinearRefresh
\* Options, the key snapshot, the shuffle and the context; then the first
\* lookup, which waits for nothing.
LinearBeginWaits(p, owner, o, order) ==
    [ p EXCEPT !.owner = owner, !.strategy = "LinearRefresh",
               !.shuffle = o.shuffle, !.sleep = o.sleep, !.timeout = o.timeout,
               !.pc = "select", !.addresses = order, !.i = 1, !.tm = o.sleep,
               !.dl = DeadlineOf(o.timeout) ]

LinearBegin(p, owner, o, order) ==
    LET q == [ p EXCEPT !.owner = owner, !.strategy = "LinearRefresh",
                        !.shuffle = o.shuffle, !.sleep = o.sleep,
                        !.timeout = o.timeout ]
    IN IF o.err # NoError THEN Returned(q, FALSE, o.err)
       ELSE IF order = <<>> THEN Returned(q, TRUE, NoError)
       ELSE [ q EXCEPT !.pc = "lookup", !.addresses = order, !.i = 1,
                       !.dl = DeadlineOf(o.timeout) ]

\* The for statement's i++ and i < len(addresses): the next select, or the
\* return after the loop.
LinearNextStopsEarly(p) == Returned([p EXCEPT !.i = @ + 1], TRUE, NoError)

LinearNextSameKey(p) ==
    [ p EXCEPT !.pc = "select", !.tm = p.sleep, !.res = NoResult ]

LinearNext(p) ==
    IF p.i + 1 > Len(p.addresses)
    THEN Returned([p EXCEPT !.i = @ + 1], TRUE, NoError)
    ELSE [ p EXCEPT !.pc = "select", !.i = @ + 1, !.tm = p.sleep,
                    !.res = NoResult ]

\* resolver(addresses[i]) is r.Lookup: the live call ...
LinearResolvedStoresFailure(p, r) == [ p EXCEPT !.pc = "store", !.res = r ]

LinearResolved(p, r) ==
    IF r.err # NilErr THEN LinearNext(p)
    ELSE [ p EXCEPT !.pc = "store", !.res = r ]

ObserveCall(o, address) == [ o EXCEPT !.log = Append(@, address) ]

\* errs: the errors the resolver may return in this call.
LinearResolverReturn(errs) ==
    /\ Alive
    /\ rp.strategy = "LinearRefresh" /\ rp.pc = "lookup"
    /\ \E r \in ResolverResults(rp.addresses[rp.i]) :
          /\ r.err \in errs
          /\ rp' = LinearResolved(rp, r)
          /\ obs' = ObserveCall(obs, rp.addresses[rp.i])
    /\ UNCHANGED <<confVars, cacheVars, callerVars, tasks, loopVars, doneVars>>

\* ... and the upsert of its result.
LinearStore ==
    /\ Alive
    /\ rp.strategy = "LinearRefresh" /\ rp.pc = "store"
    /\ cache' = LookupStored(cache, rp.addresses[rp.i], rp.res.ips)
    /\ rp' = LinearNext(rp)
    /\ UNCHANGED <<confVars, callerVars, tasks, obs, loopVars, doneVars>>

\* case <-time.After(refreshSleepTime): enter the STALE loop.
LinearTimerFired(p) == [ p EXCEPT !.pc = "stale" ]

LinearSelectTimer ==
    /\ Alive
    /\ rp.strategy = "LinearRefresh" /\ PassTimerReady
    /\ rp' = LinearTimerFired(rp)
    /\ UNCHANGED <<confVars, cacheVars, callerVars, tasks, obs, loopVars, doneVars>>

\* case <-ctx.Done(): return false, nil
LinearDeadlineFired(p) == Returned(p, FALSE, NoError)

LinearSelectDeadline ==
    /\ Alive
    /\ rp.strategy = "LinearRefresh" /\ PassDeadlineReady
    /\ rp' = LinearDeadlineFired(rp)
    /\ UNCHANGED <<confVars, cacheVars, callerVars, tasks, obs, loopVars, doneVars>>

\* One turn of the STALE loop: a key still present is looked up; a key
\* that is gone is passed over, and past the last key the pass returns.
LinearStaleStepBlind(p, c) == [ p EXCEPT !.pc = "lookup" ]

LinearStaleStep(p, c) ==
    IF Contains(c, p.addresses[p.i]) THEN [ p EXCEPT !.pc = "lookup" ]
    ELSE IF p.i + 1 > Len(p.addresses)
         THEN Returned([p EXCEPT !.i = @ + 1], TRUE, NoError)
         ELSE [ p EXCEPT !.i = @ + 1 ]

LinearStale ==
    /\ Alive
    /\ rp.strategy = "LinearRefresh" /\ rp.pc = "stale"
    /\ rp' = LinearStaleStep(rp, cache)
    /\ UNCHANGED <<confVars, cacheVars, callerVars, tasks, obs, loopVars, doneVars>>

\* -------------------------------------------------------- BatchRefresh
\* tasks[n]: the goroutine wgResolver(n) of the current pass: "none" (not
\* dispatched), "lookup" (in the resolver), "store" (resolved, about to
\* upsert), "done" (wg.Done() has run).
TasksOver == \A n \in Names : tasks[n] \in {"none", "done"}

Min(a, b) == IF a < b THEN a ELSE b

\* The first loop: it dispatches, counts, and only then compares the count
\* with batchSize, so it dispatches one key even for batchSize < 1.
BatchFirst(batchSize, n) == IF batchSize < 1 THEN Min(1, n) ELSE Min(batchSize, n)

\* wg.Add(1); go wgResolver(a)
Dispatch(t, address) == [ t EXCEPT ![address] = "lookup" ]

RECURSIVE DispatchAll(_, _)
DispatchAll(t, as) ==
    IF as = <<>> THEN t ELSE DispatchAll(Dispatch(t, Head(as)), Tail(as))

\* Options, the key snapshot, the shuffle, the context and the first
\* window; a key set that fits in the first window returns at once.
BatchBegin(p, owner, o, order) ==
    LET q == [ p EXCEPT !.owner = owner, !.strategy = "BatchRefresh",
                        !.shuffle = o.shuffle, !.sleep = o.sleep,
                        !.timeout = o.timeout, !.batch = o.batch ]
        total == BatchFirst(o.batch, Len(order))
    IN IF o.err # NoError THEN Returned(q, FALSE, o.err)
       ELSE IF order = <<>> THEN Returned(q, TRUE, NoError)
       ELSE IF total >= Len(order)
            THEN Returned([q EXCEPT !.addresses = order], TRUE, NoError)
            ELSE [ q EXCEPT !.pc = "select", !.addresses = order,
                            !.total = total, !.tm = o.sleep,
                            !.dl = DeadlineOf(o.timeout) ]

\* The keys the first loop dispatches.
BatchFirstWave(o, order) ==
    IF o.err # NoError THEN <<>>
    ELSE SubSeq(order, 1, BatchFirst(o.batch, Len(order)))

\* case <-time.After(refreshSleepTime): run := 0, i := total
BatchTimerFired(p) == [ p EXCEPT !.pc = "wave", !.run = 0, !.tm = 0 ]

BatchSelectTimer ==
    /\ Alive
    /\ rp.strategy = "BatchRefresh" /\ PassTimerReady
    /\ rp' = BatchTimerFired(rp)
    /\ UNCHANGED <<confVars, cacheVars, callerVars, tasks, obs, loopVars, doneVars>>

\* case <-ctx.Done(): return false, nil
BatchDeadlineFired(p) == Returned(p, FALSE, NoError)

BatchSelectDeadline ==
    /\ Alive
    /\ rp.strategy = "BatchRefresh" /\ PassDeadlineReady
    /\ rp' = BatchDeadlineFired(rp)
    /\ UNCHANGED <<confVars, cacheVars, callerVars, tasks, obs, loopVars, doneVars>>

\* One turn of the STALE loop over addresses[total] (0-based; here
\* addresses[total + 1]): dispatch it if it is still resident, count it,
\* then break DONE past the last key (the context is of no use from there)
\* or break STALE after batchSize dispatches.
BatchWaveStepJoinsEarly(p, c) ==
    [ p EXCEPT !.pc = "join", !.total = p.total + 1, !.run = 0, !.dl = -1 ]

BatchWaveStepTestsWindowFirst(p, c) ==
    LET run == IF Contains(c, p.addresses[p.total + 1]) THEN p.run + 1 ELSE p.run
        total == p.total + 1
    IN IF p.run >= p.batch
       THEN [ p EXCEPT !.pc = "select", !.run = 0, !.tm = p.sleep ]
       ELSE IF total >= Len(p.addresses)
            THEN [ p EXCEPT !.pc = "join", !.total = total, !.run = 0, !.dl = -1 ]
            ELSE [ p EXCEPT !.total = total, !.run = run ]

BatchWaveStepCountsAbsent(p, c) ==
    LET total == p.total + 1
    IN IF total >= Len(p.addresses)
       THEN [ p EXCEPT !.pc = "join", !.total = total, !.run = 0, !.dl = -1 ]
       ELSE IF p.run + 1 >= p.batch
            THEN [ p EXCEPT !.pc = "select", !.total = total, !.run = 0,
                            !.tm = p.sleep ]
            ELSE [ p EXCEPT !.total = total, !.run = p.run + 1 ]

BatchWaveStep(p, c) ==
    LET run == IF Contains(c, p.addresses[p.total + 1]) THEN p.run + 1 ELSE p.run
        total == p.total + 1
    IN IF total >= Len(p.addresses)
       THEN [ p EXCEPT !.pc = "join", !.total = total, !.run = 0, !.dl = -1 ]
       ELSE IF run >= p.batch
            THEN [ p EXCEPT !.pc = "select", !.total = total, !.run = 0,
                            !.tm = p.sleep ]
            ELSE [ p EXCEPT !.total = total, !.run = run ]

BatchWave ==
    /\ Alive
    /\ rp.strategy = "BatchRefresh" /\ rp.pc = "wave"
    /\ rp' = BatchWaveStep(rp, cache)
    /\ LET a == rp.addresses[rp.total + 1] IN
       IF Contains(cache, a)
       THEN tasks' = Dispatch(tasks, a) /\ obs' = ObserveCall(obs, a)
       ELSE UNCHANGED <<tasks, obs>>
    /\ UNCHANGED <<confVars, cacheVars, callerVars, loopVars, doneVars>>

\* wg.Wait(); return maybe, nil
BatchJoined(p) == Returned(p, TRUE, NoError)

BatchJoin ==
    /\ Alive
    /\ rp.strategy = "BatchRefresh" /\ rp.pc = "join"
    /\ TasksOver
    /\ rp' = BatchJoined(rp)
    /\ UNCHANGED <<confVars, cacheVars, callerVars, tasks, obs, loopVars, doneVars>>

\* wgResolver(a): resolver(a) is r.Lookup(a), whose result is dropped; a
\* failed resolution stores nothing.
TaskResolved(r) == IF r.err # NilErr THEN "done" ELSE "store"

TaskResolverReturn(errs) ==
    /\ Alive
    /\ \E n \in Names :
          /\ tasks[n] = "lookup"
          /\ \E r \in ResolverResults(n) :
                /\ r.err \in errs
                /\ tasks' = [tasks EXCEPT ![n] = TaskResolved(r)]
    /\ UNCHANGED <<confVars, cacheVars, callerVars, rp, obs, loopVars, doneVars>>

TaskStore ==
    /\ Alive
    /\ \E n \in Names :
          /\ tasks[n] = "store"
          /\ cache' = LookupStored(cache, n, IPsOf(n))
          /\ tasks' = [tasks EXCEPT ![n] = "done"]
    /\ UNCHANGED <<confVars, callerVars, rp, obs, loopVars, doneVars>>

\* ------------------------------------------------------ Simple.Refresh
\* The call of the stored RefreshFunc with the options of the stored type.

RefreshBegin(owner, timeout, order) ==
    LET options == RefreshOptions(conf, timeout) IN
    CASE conf.refresh = "NoRefresh" -> NoRefreshBegin(IdlePass, owner)
      [] conf.refresh = "LinearRefresh" ->
            LinearBegin(IdlePass, owner, LinearOptions(options), order)
      [] conf.refresh = "BatchRefresh" ->
            BatchBegin(IdlePass, owner, BatchOptions(options), order)

\* The keys the strategy dispatches to goroutines before its first wait.
RefreshDispatches(timeout, order) ==
    IF conf.refresh = "BatchRefresh"
    THEN BatchFirstWave(BatchOptions(RefreshOptions(conf, timeout)), order)
    ELSE <<>>

RefreshShuffles ==
    CASE conf.refresh = "LinearRefresh" -> LinearOptions(RefreshOptions(conf, 0)).shuffle
      [] conf.refresh = "BatchRefresh" -> BatchOptions(RefreshOptions(conf, 0)).shuffle
      [] OTHER -> FALSE

\* A goroutine calls Simple.Refresh(timeout) while no pass is under way.
RefreshCall(timeout) ==
    /\ Alive
    /\ rp.pc = "idle" /\ TasksOver
    /\ lp.pc \in {"off", "exited"}
    /\ \E order \in Orders(Keys(cache), RefreshShuffles) :
          /\ rp' = RefreshBegin("caller", timeout, order)
          /\ tasks' = DispatchAll(NoTasks, RefreshDispatches(timeout, order))
          /\ obs' = [NoObs EXCEPT !.log = RefreshDispatches(timeout, order)]
    /\ UNCHANGED <<confVars, cacheVars, callerVars, loopVars, doneVars>>

\* if err != nil { panic(...) }; otherwise Refresh returns to its caller.
RefreshEndFaultsOnIncomplete(p) ==
    IF p.err # NoError \/ ~p.complete THEN [p EXCEPT !.pc = "panic"] ELSE IdlePass

RefreshEnd(p) == IF p.err # NoError THEN [p EXCEPT !.pc = "panic"] ELSE IdlePass

RefreshReturn ==
    /\ Alive
    /\ rp.pc = "returned" /\ rp.owner = "caller"
    /\ rp' = RefreshEnd(rp)
    /\ obs' = NoObs
    /\ UNCHANGED <<confVars, cacheVars, callerVars, tasks, loopVars, doneVars>>

\* ------------------------------------------------------- Simple.Close
\* close(r.done): closing a closed channel panics.
ClosedTwice(ch) == "closed"

Closed(ch) == IF ch = "open" THEN "closed" ELSE "panic"

SimpleClose ==
    /\ Alive
    /\ sdone = "open"
    /\ rdone.pc = "idle"
    /\ sdone' = Closed(sdone)
    /\ UNCHANGED <<confVars, cacheVars, callerVars, passVars, loopVars, rdone>>

\* ----------------------------------------------- the cache specification
\* One goroutine calling Fetch and Lookup step by step, while other
\* goroutines Add, Remove and Purge at any moment.
InitCache == InitSimple(<<>>)

NextCache ==
    \/ \E a \in Names : FetchCall(a)
    \/ \E a \in Names : LookupCall(a)
    \/ ResolverReturn
    \/ LookupStore
    \/ CallerReturn
    \/ \E a \in Names, v \in AddVals : Add(a, v)
    \/ \E a \in Names : Remove(a)
    \/ Purge

SpecCache == InitCache /\ [][NextCache]_vars

\* ------------------------------------ the sequential-pass specification
\* A Simple with the default strategy (LinearRefresh), any sleep time and
\* either shuffle setting; passes with any timeout, while other goroutines
\* seed placeholders, remove names, purge and close.
LinearOptionLists ==
    { << NewConfigOption(ConfigRefreshSleepTime, DurV(d)),
         NewConfigOption(ConfigRefreshShuffle, BoolV(b)) >> :
        d \in 0..MaxSleep, b \in BOOLEAN }

InitLinear == \E options \in LinearOptionLists : InitSimple(options)

NextLinear ==
    \/ \E t \in 0..MaxTimeout : RefreshCall(t)
    \/ LinearResolverReturn({NilErr, NoSuchHost})
    \/ LinearStore
    \/ LinearSelectTimer
    \/ LinearSelectDeadline
    \/ LinearStale
    \/ RefreshReturn
    \/ Tick
    \/ \E a \in Names : Add(a, <<>>)
    \/ \E a \in Names : Remove(a)
    \/ Purge

SpecLinear == InitLinear /\ [][NextLinear]_vars

\* --------------------------------------------- one goroutine, every call
\* A map-backed cache used by a single goroutine: any sequence of Add,
\* Remove, Lookup, Fetch and Purge, with no concurrent writer.
NextCalls ==
    \/ \E a \in Names : FetchCall(a)
    \/ \E a \in Names : LookupCall(a)
    \/ ResolverReturn
    \/ LookupStore
    \/ CallerReturn
    \/ \E a \in Names, v \in AddVals : AddCall(a, v)
    \/ \E a \in Names : RemoveCall(a)
    \/ PurgeCall

SpecCalls == InitCache /\ [][NextCalls]_vars

\* ------------------------------------ the windowed specification
\* A map-backed cache constructed with RefreshType = RefreshBatch, whose
\* Refresh is called with and without a deadline while other goroutines
\* Add and Remove at any moment.
BatchOptionLists ==
    { << NewConfigOption(ConfigRefreshType, RTypeV(RefreshBatch)),
         NewConfigOption(ConfigRefreshBatchSize, IntV(k)),
         NewConfigOption(ConfigRefreshSleepTime, DurV(d)),
         NewConfigOption(ConfigRefreshShuffle, BoolV(b)) >> :
        k \in 1..MaxBatch, d \in 0..MaxSleep, b \in BOOLEAN }

InitBatch == \E options \in BatchOptionLists : InitSimple(options)

NextBatch ==
    \/ \E t \in 0..MaxTimeout : RefreshCall(t)
    \/ BatchSelectTimer
    \/ BatchSelectDeadline
    \/ BatchWave
    \/ BatchJoin
    \/ TaskResolverReturn({NilErr, NoSuchHost})
    \/ TaskStore
    \/ RefreshReturn
    \/ Tick
    \/ \E a \in Names : Add(a, <<>>)
    \/ \E a \in Names : Remove(a)

SpecBatch == InitBatch /\ [][NextBatch]_vars

\* The same cache with passes without a deadline, and no goroutine removing
\* a key of the snapshot while the pass that took it is under way.
ResidentRemove(address) ==
    /\ rp.pc = "idle" \/ address \notin Snapshot
    /\ Remove(address)

NextBatchResident ==
    \/ RefreshCall(0)
    \/ BatchSelectTimer
    \/ BatchWave
    \/ BatchJoin
    \/ TaskResolverReturn({NilErr, NoSuchHost})
    \/ TaskStore
    \/ RefreshReturn
    \/ Tick
    \/ \E a \in Names : Add(a, <<>>)
    \/ \E a \in Names : ResidentRemove(a)

SpecBatchResident == InitBatch /\ [][NextBatchResident]_vars

\* ------------------------- the sequential pass with nothing else running
\* The same back-end with a resolver that succeeds, passes without a
\* deadline, and the other goroutines mutating the table only between
\* passes (QuietAdd, QuietRemove, QuietPurge: never while a pass is under
\* way or has just returned).
Quiet == rp.pc = "idle"

QuietAdd(address, ips) == Quiet /\ Add(address, ips)

QuietRemove(address) == Quiet /\ Remove(address)

QuietPurge == Quiet /\ Purge

NextLinearQuiet ==
    \/ RefreshCall(0)
    \/ LinearResolverReturn({NilErr})
    \/ LinearStore
    \/ LinearSelectTimer
    \/ LinearStale
    \/ RefreshReturn
    \/ Tick
    \/ \E a \in Names : QuietAdd(a, <<>>)
    \/ \E a \in Names : QuietRemove(a)
    \/ QuietPurge

SpecLinearQuiet == InitLinear /\ [][NextLinearQuiet]_vars

\* ------------------------------- closing during a sequential pass
\* The sequential back-end, closed by another goroutine while a pass is in
\* its select with time left on the timer; nobody calls Refresh on a
\* closed back-end.
WaitingClose ==
    /\ rp.strategy = "LinearRefresh" /\ rp.pc = "select" /\ rp.tm > 0
    /\ SimpleClose

OpenRefreshCall(timeout) == sdone = "open" /\ RefreshCall(timeout)

NextLinearClose ==
    \/ \E t \in 0..MaxTimeout : OpenRefreshCall(t)
    \/ LinearResolverReturn({NilErr, NoSuchHost})
    \/ LinearStore
    \/ LinearSelectTimer
    \/ LinearSelectDeadline
    \/ LinearStale
    \/ RefreshReturn
    \/ Tick
    \/ \E a \in Names : Add(a, <<>>)
    \/ \E a \in Names : Remove(a)
    \/ WaitingClose

SpecLinearClose == InitLinear /\ [][NextLinearClose]_vars

\* ------------------------------------------------------ the option system
\* Calls of the constructors, of the config appliers and of the two looping
\* strategies with arbitrary option lists.  For every key the values are
\* one or two of the type the key wants and one of another type.
OptionKeys ==
    { ConfigResolver, ConfigRefreshShuffle, ConfigRefreshSleepTime,
      ConfigRefreshType, ConfigRefreshBatchSize, ConfigRefreshTimeout,
      ConfigSize, ConfigItemTTL, ConfigAllowRefresh, ConfigNotAnOption }

OptionValues(key) ==
    CASE key = ConfigResolver -> { FuncV, IntV(42) }
      [] key = ConfigRefreshShuffle -> { BoolV(FALSE), IntV(16) }
      [] key = ConfigRefreshSleepTime -> { DurV(0), BoolV(TRUE) }
      [] key = ConfigRefreshType -> { RTypeV(RefreshBatch), IntV(1) }
      [] key = ConfigRefreshBatchSize -> { IntV(1), BoolV(FALSE) }
      [] key = ConfigRefreshTimeout -> { DurV(1), IntV(1) }
      [] key = ConfigSize -> { IntV(2), BoolV(FALSE) }
      [] key = ConfigItemTTL -> { DurV(1), IntV(1) }
      [] key = ConfigAllowRefresh -> { BoolV(FALSE), IntV(42) }
      [] OTHER -> { IntV(5) }

Options ==
    UNION { { NewConfigOption(k, v) : v \in OptionValues(k) } : k \in OptionKeys }

OptionLists == UNION { [1..n -> Options] : n \in 0..MaxOptions }

\* The back-ends a config applier is called on.
SimpleInstances ==
    { NewSimple(<<>>).r,
      NewSimple(<< NewConfigOption(ConfigRefreshShuffle, BoolV(FALSE)),
                   NewConfigOption(ConfigRefreshSleepTime, DurV(2)),
                   NewConfigOption(ConfigRefreshType, RTypeV(RefreshOff)),
                   NewConfigOption(ConfigRefreshBatchSize, IntV(3)) >>).r }

LRUInstances ==
    { NewLRU(<< NewConfigOption(ConfigSize, IntV(10)) >>).r,
      NewLRU(<< NewConfigOption(ConfigSize, IntV(10)),
                NewConfigOption(ConfigItemTTL, DurV(1)),
                NewConfigOption(ConfigRefreshSleepTime, DurV(2)),
                NewConfigOption(ConfigRefreshShuffle, BoolV(TRUE)),
                NewConfigOption(ConfigResolver, FuncV),
                NewConfigOption(ConfigAllowRefresh, BoolV(TRUE)) >>).r }

OpenCall(fn, options) == [NoCall EXCEPT !.pc = "call", !.fn = fn, !.options = options]

CallDone(o, ok, err) == [o EXCEPT !.pc = "done", !.ok = ok, !.err = err]

CallNewSimple ==
    /\ oc.pc = "call" /\ oc.fn = "NewSimple"
    /\ LET n == NewSimple(oc.options) IN
          /\ oc' = CallDone(oc, n.ok, n.err)
          /\ conf' = IF n.ok THEN n.r ELSE conf
    /\ UNCHANGED <<lru, cacheVars, callerVars, passVars, loopVars, doneVars>>

CallSimpleConfig ==
    /\ oc.pc = "call" /\ oc.fn = "Simple.config"
    /\ LET c == SimpleConfig(conf, oc.options[1]) IN
          /\ oc' = CallDone(oc, TRUE, c.err)
          /\ conf' = c.r
    /\ UNCHANGED <<lru, cacheVars, callerVars, passVars, loopVars, doneVars>>

CallNewLRU ==
    /\ oc.pc = "call" /\ oc.fn = "NewLRU"
    /\ LET n == NewLRU(oc.options) IN
          /\ oc' = CallDone(oc, n.ok, n.err)
          /\ lru' = IF n.ok THEN [made |-> TRUE, conf |-> n.r, cache |-> EmptyCache]
                    ELSE lru
    /\ UNCHANGED <<conf, cacheVars, callerVars, passVars, loopVars, doneVars>>

CallLRUConfig ==
    /\ oc.pc = "call" /\ oc.fn = "LRU.config"
    /\ lru.made
    /\ LET c == LRUConfig(lru.conf, oc.options[1]) IN
          /\ oc' = CallDone(oc, TRUE, c.err)
          /\ lru' = [lru EXCEPT !.conf = c.r]
    /\ UNCHANGED <<conf, cacheVars, callerVars, passVars, loopVars, doneVars>>

\* LinearRefresh(cache, resolver, options...) and BatchRefresh, called on
\* a table with no keys: whatever the options, no lookup follows.
CallLinearRefresh ==
    /\ oc.pc = "call" /\ oc.fn = "LinearRefresh"
    /\ rp.pc = "idle" /\ Len_(cache) = 0
    /\ rp' = LinearBegin(IdlePass, "caller", LinearOptions(oc.options), Keys(cache))
    /\ oc' = CallDone(oc, rp'.complete, rp'.err)
    /\ UNCHANGED <<conf, lru, cacheVars, callerVars, tasks, obs, loopVars, doneVars>>

CallBatchRefresh ==
    /\ oc.pc = "call" /\ oc.fn = "BatchRefresh"
    /\ rp.pc = "idle" /\ Len_(cache) = 0
    /\ rp' = BatchBegin(IdlePass, "caller", BatchOptions(oc.options), Keys(cache))
    /\ oc' = CallDone(oc, rp'.complete, rp'.err)
    /\ UNCHANGED <<conf, lru, cacheVars, callerVars, tasks, obs, loopVars, doneVars>>

InitOptions ==
    /\ cache = EmptyCache /\ sdone = "open" /\ cl = IdleCaller /\ rp = IdlePass
    /\ tasks = NoTasks /\ lp = NoLoop /\ rdone = OpenDone /\ obs = NoObs
    /\ \/ /\ conf = SimpleDefaults /\ lru = NoLRU
          /\ \E fn \in {"NewSimple", "NewLRU", "LinearRefresh", "BatchRefresh"},
                options \in OptionLists : oc = OpenCall(fn, options)
       \/ /\ conf \in SimpleInstances
          /\ \E l \in LRUInstances :
                lru = [made |-> TRUE, conf |-> l, cache |-> EmptyCache]
          /\ \E fn \in {"Simple.config", "LRU.config"}, opt \in Options :
                oc = OpenCall(fn, <<opt>>)

NextOptions ==
    \/ CallNewSimple
    \/ CallSimpleConfig
    \/ CallNewLRU
    \/ CallLRUConfig
    \/ CallLinearRefresh
    \/ CallBatchRefresh

SpecOptions == InitOptions /\ [][NextOptions]_vars

\* ------------------------------------------------------------ the facade
\* NewFromConfig with a Simple cache and AutoRefreshInterval = rate > 0:
\* the goroutine autoRefreshTimeout(rate, timeout) entering its select.
LoopArmed(l) == [ l EXCEPT !.pc = "wait", !.iv = l.rate ]

\* if config.AutoRefreshInterval > 0 { go resolver.autoRefreshTimeout(...) }
NewLoopAlways(l) == LoopArmed(l)

NewLoop(l) == IF l.rate > 0 THEN LoopArmed(l) ELSE l

InitResolver(options, rate, timeout) ==
    /\ NewSimple(options).ok
    /\ conf = NewSimple(options).r
    /\ cache = EmptyCache
    /\ sdone = "open"
    /\ cl = IdleCaller
    /\ rp = IdlePass
    /\ tasks = NoTasks
    /\ lp = NewLoop([NoLoop EXCEPT !.rate = rate, !.timeout = timeout])
    /\ rdone = OpenDone
    /\ obs = NoObs
    /\ lru = NoLRU
    /\ oc = NoCall

\* case <-time.After(rate): r.cache.Refresh(timeout)
LoopStartedInBackground(l, ch) ==
    [ l EXCEPT !.iv = l.rate,
               !.passes = IF ch = "closed" THEN Min(@ + 1, 2) ELSE @ ]

LoopStarted(l, ch) ==
    [ l EXCEPT !.pc = "refresh", !.iv = 0,
               !.passes = IF ch = "closed" THEN Min(@ + 1, 2) ELSE @ ]

LoopSelectTimer ==
    /\ Alive
    /\ LoopTimerReady
    /\ rp.pc = "idle" /\ TasksOver
    /\ \E order \in Orders(Keys(cache), RefreshShuffles) :
          /\ rp' = RefreshBegin("loop", lp.timeout, order)
          /\ tasks' = DispatchAll(NoTasks, RefreshDispatches(lp.timeout, order))
          /\ obs' = [NoObs EXCEPT !.log = RefreshDispatches(lp.timeout, order)]
    /\ lp' = LoopStarted(lp, rdone.ch)
    /\ UNCHANGED <<confVars, cacheVars, callerVars, doneVars>>

\* Refresh returns (or panics) and the for statement enters the select
\* again, with a new time.After(rate).
LoopAgainAtOnce(l) == [ l EXCEPT !.pc = "wait", !.iv = 0 ]

LoopAgain(l) == LoopArmed(l)

LoopRefreshReturn ==
    /\ Alive
    /\ lp.pc = "refresh"
    /\ rp.pc = "returned" /\ rp.owner = "loop"
    /\ rp' = RefreshEnd(rp)
    /\ lp' = LoopAgain(lp)
    /\ obs' = NoObs
    /\ UNCHANGED <<confVars, cacheVars, callerVars, tasks, doneVars>>

\* case <-r.done: return
LoopExited(l) == [ l EXCEPT !.pc = "exited", !.iv = 0 ]

LoopSelectDone ==
    /\ Alive
    /\ LoopDoneReady
    /\ lp' = LoopExited(lp)
    /\ UNCHANGED <<confVars, cacheVars, callerVars, passVars, doneVars>>

\* Resolver.Close: close(r.done) ...
CloseSignalled(d) == [ d EXCEPT !.ch = Closed(@), !.pc = "cache" ]

ResolverCloseDone ==
    /\ Alive
    /\ rdone.pc = "idle"
    /\ rdone' = CloseSignalled(rdone)
    /\ UNCHANGED <<confVars, cacheVars, callerVars, passVars, loopVars, sdone>>

\* ... return r.cache.Close(): Simple.Close closes its own channel and
\* returns nil, which Resolver.Close hands on; a Close that panics returns
\* nothing.
CloseResult(ch) == IF ch = "closed" THEN NilErr ELSE "none"

BackendLeftOpen(ch) == ch

BackendClosed(ch) == Closed(ch)

CloseReturned(d, ch) == [ d EXCEPT !.pc = "closed", !.ret = CloseResult(ch) ]

ResolverCloseCache ==
    /\ Alive
    /\ rdone.pc = "cache"
    /\ sdone' = BackendClosed(sdone)
    /\ rdone' = CloseReturned(rdone, sdone')
    /\ UNCHANGED <<confVars, cacheVars, callerVars, passVars, loopVars>>

\* The facade of the interval test: an unshuffled cache whose passes sleep
\* not at all or long, no AutoRefreshTimeout, and the cache still in the
\* hands of the goroutines that Add to it.
InitFacade ==
    \E d \in {0, MaxSleep}, rate \in 1..MaxRate :
       InitResolver(<< NewConfigOption(ConfigRefreshSleepTime, DurV(d)),
                       NewConfigOption(ConfigRefreshShuffle, BoolV(FALSE)) >>,
                    rate, 0)

NextFacadeLoop ==
    \/ LoopSelectTimer
    \/ LoopSelectDone
    \/ LoopRefreshReturn

NextFacadePass ==
    \/ LinearResolverReturn({NilErr, NoSuchHost})
    \/ LinearStore
    \/ LinearSelectTimer
    \/ LinearStale

NextFacade ==
    \/ NextFacadeLoop
    \/ NextFacadePass
    \/ Tick
    \/ ResolverCloseDone
    \/ ResolverCloseCache
    \/ \E a \in Names : Add(a, <<>>)
    \/ Purge

\* Every goroutine that can take a step is scheduled, every resolver call
\* returns and time passes; nobody is obliged to add, purge or close.
FairFacade ==
    /\ WF_vars(LoopSelectTimer) /\ WF_vars(LoopSelectDone)
    /\ WF_vars(LoopRefreshReturn)
    /\ WF_vars(LinearResolverReturn({NilErr, NoSuchHost}))
    /\ WF_vars(LinearStore) /\ WF_vars(LinearSelectTimer)
    /\ WF_vars(LinearStale)
    /\ WF_vars(Tick) /\ WF_vars(ResolverCloseCache)

SpecFacade == InitFacade /\ [][NextFacade]_vars /\ FairFacade

\* ------------------------------------------- every strategy, one caller
\* A map-backed cache constructed with any of the three refresh types,
\* refreshed with and without a deadline by one goroutine, the others
\* mutating the table between passes.
StrategyOptionLists ==
    { << NewConfigOption(ConfigRefreshType, RTypeV(ty)),
         NewConfigOption(ConfigRefreshBatchSize, IntV(k)),
         NewConfigOption(ConfigRefreshSleepTime, DurV(d)),
         NewConfigOption(ConfigRefreshShuffle, BoolV(b)) >> :
        ty \in {RefreshOff, RefreshLinear, RefreshBatch},
        k \in 1..MaxBatch, d \in 0..MaxSleep, b \in BOOLEAN }

InitStrategies == \E options \in StrategyOptionLists : InitSimple(options)

NextStrategies ==
    \/ \E t \in 0..MaxTimeout : RefreshCall(t)
    \/ LinearResolverReturn({NilErr})
    \/ LinearStore
    \/ LinearSelectTimer
    \/ LinearSelectDeadline
    \/ LinearStale
    \/ BatchSelectTimer
    \/ BatchSelectDeadline
    \/ BatchWave
    \/ BatchJoin
    \/ TaskResolverReturn({NilErr})
    \/ TaskStore
    \/ RefreshReturn
    \/ Tick
    \/ \E a \in Names : QuietAdd(a, <<>>)
    \/ \E a \in Names : QuietRemove(a)
    \/ QuietPurge

SpecStrategies == InitStrategies /\ [][NextStrategies]_vars

\* ------------------------------------------------------ LRU: the cache
\* The hashicorp caches behind hashiLRU hold at most size entries (the
\* expirable one any number when size is 0).  Which entry an Add evicts
\* from a full cache, and the order in which Keys() lists the entries,
\* depend on the access history: any other entry, and any order.
LRUFull(l) == l.conf.size > 0 /\ Len_(l.cache) >= l.conf.size

LRUAdded(l, address, ips) ==
    IF Contains(l.cache, address) \/ ~LRUFull(l)
    THEN { Upsert(l.cache, address, ips) }
    ELSE { Upsert(Delete(l.cache, victim), address, ips) : victim \in DOMAIN l.cache }

LRUKeys(l) == Orders(Keys(l.cache), TRUE)

\* LRU.Add, LRU.Remove and LRU.Purge, called by other goroutines.
LRUAdd(address, ips) ==
    /\ Alive /\ lru.made
    /\ \E c \in LRUAdded(lru, address, ips) : lru' = [lru EXCEPT !.cache = c]
    /\ UNCHANGED <<conf, oc, cacheVars, callerVars, passVars, loopVars, doneVars>>

LRURemove(address) ==
    /\ Alive /\ lru.made
    /\ lru' = [lru EXCEPT !.cache = Delete(@, address)]
    /\ UNCHANGED <<conf, oc, cacheVars, callerVars, passVars, loopVars, doneVars>>

LRUPurge ==
    /\ Alive /\ lru.made
    /\ lru' = [lru EXCEPT !.cache = EmptyCache]
    /\ UNCHANGED <<conf, oc, cacheVars, callerVars, passVars, loopVars, doneVars>>

\* The expirable cache drops the entries whose ItemTTL ran out, a bucket
\* of them at a time.
LRUExpire(expired) ==
    /\ Alive /\ lru.made /\ lru.conf.expirable
    /\ expired # {} /\ expired \subseteq DOMAIN lru.cache
    /\ lru' = [lru EXCEPT !.cache = [x \in (DOMAIN @) \ expired |-> @[x]]]
    /\ UNCHANGED <<conf, oc, cacheVars, callerVars, passVars, loopVars, doneVars>>

\* -------------------------------------------------------- LRU.Refresh
\* The flag first; then the keys, the empty check, the shuffle, the
\* context and the first lookup, which waits for nothing.
LRUBeginAnyway(p, r, timeout, order) ==
    LET q == [ p EXCEPT !.owner = "caller", !.strategy = "LRU.Refresh",
                        !.shuffle = r.refreshShuffle,
                        !.sleep = r.refreshSleepTime, !.timeout = timeout ]
    IN IF order = <<>> THEN Returned(q, TRUE, NoError)
       ELSE [ q EXCEPT !.pc = "lookup", !.addresses = order, !.i = 1,
                       !.dl = DeadlineOf(timeout) ]

LRUBegin(p, r, timeout, order) ==
    LET q == [ p EXCEPT !.owner = "caller", !.strategy = "LRU.Refresh",
                        !.shuffle = r.refreshShuffle,
                        !.sleep = r.refreshSleepTime, !.timeout = timeout ]
    IN IF ~r.allowRefresh THEN Returned(q, FALSE, NoError)
       ELSE IF order = <<>> THEN Returned(q, TRUE, NoError)
       ELSE [ q EXCEPT !.pc = "lookup", !.addresses = order, !.i = 1,
                       !.dl = DeadlineOf(timeout) ]

\* A goroutine calls LRU.Refresh(timeout) while no pass is under way.
LRURefreshCall(timeout) ==
    /\ Alive /\ lru.made
    /\ rp.pc = "idle"
    /\ \E order \in LRUKeys(lru) : rp' = LRUBegin(IdlePass, lru.conf, timeout, order)
    /\ obs' = NoObs
    /\ UNCHANGED <<confVars, cacheVars, callerVars, tasks, loopVars, doneVars>>

\* r.Lookup(addresses[i]): the resolver, whose error is dropped ...
LRUResolverReturn(errs) ==
    /\ Alive
    /\ rp.strategy = "LRU.Refresh" /\ rp.pc = "lookup"
    /\ \E r \in ResolverResults(rp.addresses[rp.i]) :
          /\ r.err \in errs
          /\ rp' = LinearResolved(rp, r)
          /\ obs' = ObserveCall(obs, rp.addresses[rp.i])
    /\ UNCHANGED <<confVars, cacheVars, callerVars, tasks, loopVars, doneVars>>

\* ... and r.cache.Add of its result.
LRUStore ==
    /\ Alive
    /\ rp.strategy = "LRU.Refresh" /\ rp.pc = "store"
    /\ \E c \in LRUAdded(lru, rp.addresses[rp.i], rp.res.ips) :
          lru' = [lru EXCEPT !.cache = c]
    /\ rp' = LinearNext(rp)
    /\ UNCHANGED <<conf, oc, cacheVars, callerVars, tasks, obs, loopVars, doneVars>>

LRUSelectTimer ==
    /\ Alive
    /\ rp.strategy = "LRU.Refresh" /\ PassTimerReady
    /\ rp' = LinearTimerFired(rp)
    /\ UNCHANGED <<confVars, cacheVars, callerVars, tasks, obs, loopVars, doneVars>>

LRUSelectDeadline ==
    /\ Alive
    /\ rp.strategy = "LRU.Refresh" /\ PassDeadlineReady
    /\ rp' = LinearDeadlineFired(rp)
    /\ UNCHANGED <<confVars, cacheVars, callerVars, tasks, obs, loopVars, doneVars>>

LRUStale ==
    /\ Alive
    /\ rp.strategy = "LRU.Refresh" /\ rp.pc = "stale"
    /\ rp' = LinearStaleStep(rp, lru.cache)
    /\ UNCHANGED <<confVars, cacheVars, callerVars, tasks, obs, loopVars, doneVars>>

\* Refresh returns to its caller (defer cancel()).
LRURefreshReturn ==
    /\ Alive
    /\ rp.strategy = "LRU.Refresh" /\ rp.pc = "returned"
    /\ rp' = IdlePass
    /\ obs' = NoObs
    /\ UNCHANGED <<confVars, cacheVars, callerVars, tasks, loopVars, doneVars>>

\* ------------------------------------------- the evicting cache, refreshed
\* An LRU of MaxNames - 1 entries, two-queue or expirable, allowing or
\* declining refreshes, refreshed with and without a deadline while other
\* goroutines add placeholders, remove names and purge.
LRUSize == MaxNames - 1

LRUOptionLists ==
    { << NewConfigOption(ConfigSize, IntV(LRUSize)),
         NewConfigOption(ConfigAllowRefresh, BoolV(b)),
         NewConfigOption(ConfigRefreshSleepTime, DurV(d)) >> \o ttl :
        b \in BOOLEAN, d \in {0, MaxSleep},
        ttl \in { <<>>, << NewConfigOption(ConfigItemTTL, DurV(1)) >> } }

InitLRU ==
    /\ conf = NewSimple(<<>>).r
    /\ cache = EmptyCache
    /\ sdone = "open"
    /\ cl = IdleCaller
    /\ rp = IdlePass
    /\ tasks = NoTasks
    /\ lp = NoLoop
    /\ rdone = OpenDone
    /\ obs = NoObs
    /\ oc = NoCall
    /\ \E options \in LRUOptionLists :
          /\ NewLRU(options).ok
          /\ lru = [made |-> TRUE, conf |-> NewLRU(options).r, cache |-> EmptyCache]

NextLRU ==
    \/ \E t \in 0..MaxTimeout : LRURefreshCall(t)
    \/ LRUResolverReturn({NilErr, NoSuchHost})
    \/ LRUStore
    \/ LRUSelectTimer
    \/ LRUSelectDeadline
    \/ LRUStale
    \/ LRURefreshReturn
    \/ Tick
    \/ \E expired \in SUBSET Names : LRUExpire(expired)
    \/ \E a \in Names : LRUAdd(a, <<>>)
    \/ \E a \in Names : LRURemove(a)
    \/ LRUPurge

SpecLRU == InitLRU /\ [][NextLRU]_vars

\* ------------------------------------------------- refreshing turned off
\* A map-backed cache constructed with RefreshType = RefreshOff: callers
\* fill and empty it between calls of Refresh, with and without a
\* deadline, and NoRefresh is also called directly with no option, with
\* any one option (recognized anywhere or not, rightly typed or not) and
\* with the options Simple.Refresh would pass.
OffOptionLists ==
    { << NewConfigOption(ConfigRefreshType, RTypeV(RefreshOff)),
         NewConfigOption(ConfigRefreshSleepTime, DurV(d)),
         NewConfigOption(ConfigRefreshShuffle, BoolV(b)) >> :
        d \in 0..MaxSleep, b \in BOOLEAN }

NoRefreshOptionLists ==
    {<<>>} \cup { <<o>> : o \in Options }
           \cup { RefreshOptions(conf, t) : t \in 0..MaxTimeout }

CallNoRefresh(options) ==
    /\ Alive
    /\ rp.pc = "idle" /\ oc.pc = "none"
    /\ rp' = NoRefreshBegin(IdlePass, "caller")
    /\ oc' = CallDone(OpenCall("NoRefresh", options), rp'.complete, rp'.err)
    /\ UNCHANGED <<conf, lru, cacheVars, callerVars, tasks, obs, loopVars, doneVars>>

\* The direct caller takes the pair returned; nothing can make it panic.
NoRefreshReturn ==
    /\ Alive
    /\ rp.pc = "returned" /\ oc.pc = "done" /\ oc.fn = "NoRefresh"
    /\ rp' = IdlePass
    /\ oc' = NoCall
    /\ UNCHANGED <<conf, lru, cacheVars, callerVars, tasks, obs, loopVars, doneVars>>

OffRefreshReturn == oc.pc = "none" /\ RefreshReturn

InitOff == \E options \in OffOptionLists : InitSimple(options)

NextOff ==
    \/ \E t \in 0..MaxTimeout : RefreshCall(t)
    \/ OffRefreshReturn
    \/ \E options \in NoRefreshOptionLists : CallNoRefresh(options)
    \/ NoRefreshReturn
    \/ \E a \in Names, v \in AddVals : QuietAdd(a, v)
    \/ \E a \in Names : QuietRemove(a)
    \/ QuietPurge

SpecOff == InitOff /\ [][NextOff]_vars

\* --------------------------------------------- the facade and its callers
\* Resolver.Refresh and Resolver.RefreshTimeout: r.cache.Refresh.
ResolverRefresh == RefreshCall(0)

ResolverRefreshTimeout(timeout) == RefreshCall(timeout)

\* A Close of a Resolver that was closed before, or is being closed:
\* close(r.done) once more.
ResolverCloseAgain ==
    /\ Alive
    /\ rdone.pc \in {"cache", "closed"}
    /\ rdone' = [rdone EXCEPT !.ch = Closed(@)]
    /\ UNCHANGED <<confVars, cacheVars, callerVars, passVars, loopVars, sdone>>

\* Simple.Close called on the back-end by the goroutine that holds it:
\* close(r.done); return nil.
SimpleCloseCalled(c, ch) ==
    [ IdleCaller EXCEPT !.pc = IF ch = "closed" THEN "ret" ELSE "panic",
                        !.op = "Close" ]

SimpleCloseCall ==
    /\ Alive
    /\ cl.pc = "idle"
    /\ sdone' = Closed(sdone)
    /\ cl' = SimpleCloseCalled(cl, sdone')
    /\ UNCHANGED <<confVars, cacheVars, passVars, loopVars, rdone>>

\* New(rate) and its relatives with any interval, zero included, over an
\* unshuffled map-backed cache; callers add placeholders, purge, refresh
\* by hand with and without a deadline, and close the facade.
InitResolverAny ==
    \E d \in {0, MaxSleep}, rate \in 0..MaxRate :
       InitResolver(<< NewConfigOption(ConfigRefreshSleepTime, DurV(d)),
                       NewConfigOption(ConfigRefreshShuffle, BoolV(FALSE)) >>,
                    rate, 0)

NextResolver ==
    \/ NextFacadeLoop
    \/ NextFacadePass
    \/ LinearSelectDeadline
    \/ Tick
    \/ ResolverRefresh
    \/ \E t \in 1..MaxTimeout : ResolverRefreshTimeout(t)
    \/ RefreshReturn
    \/ ResolverCloseDone
    \/ ResolverCloseCache
    \/ \E a \in Names : Add(a, <<>>)
    \/ Purge

SpecResolver == InitResolverAny /\ [][NextResolver]_vars

\* The same facades, closed: by Resolver.Close, by Simple.Close on the
\* back-end they were given, once or more often, in any order, while the
\* background loop (if any) runs its passes.
NextClose ==
    \/ NextFacadeLoop
    \/ NextFacadePass
    \/ Tick
    \/ ResolverCloseDone
    \/ ResolverCloseCache
    \/ ResolverCloseAgain
    \/ SimpleCloseCall
    \/ CallerReturn
    \/ \E a \in Names : Add(a, <<>>)

SpecClose == InitResolverAny /\ [][NextClose]_vars

\* ------------------------------------- Resolver.FetchOne, FetchOneString
\* net.IP.String of an address.
IPString(ip) == ToString(ip)

\* ips, err := r.Fetch(address)
\* if err != nil || len(ips) == 0 { return nil, err }; return ips[0], nil
FetchOneLast(ret) ==
    IF ret.err # NilErr \/ Len(ret.ips) = 0
    THEN [NoOne EXCEPT !.err = ret.err]
    ELSE [NoOne EXCEPT !.ip = <<ret.ips[Len(ret.ips)]>>]

FetchOne(ret) ==
    IF ret.err # NilErr \/ Len(ret.ips) = 0
    THEN [NoOne EXCEPT !.err = ret.err]
    ELSE [NoOne EXCEPT !.ip = <<ret.ips[1]>>]

\* ip, err := r.FetchOne(address)
\* if err != nil || ip == nil { return "", err }; return ip.String(), nil
FetchOneString(one) ==
    IF one.err # NilErr \/ one.ip = <<>>
    THEN [one EXCEPT !.str = ""]
    ELSE [one EXCEPT !.str = IPString(one.ip[1])]

\* Resolver.Fetch is the back-end's Fetch.
FetchOneCall(address, via) ==
    /\ Alive
    /\ cl.pc = "idle"
    /\ cl' = [FetchProbe(cache, address) EXCEPT !.via = via]
    /\ UNCHANGED <<confVars, cacheVars, passVars, loopVars, doneVars>>

\* Fetch has returned to FetchOne.
FetchOneReturn ==
    /\ Alive
    /\ cl.pc = "ret" /\ cl.via \in {"FetchOne", "FetchOneString"}
    /\ cl' = [cl EXCEPT !.pc = "one", !.one = FetchOne(cl.ret)]
    /\ UNCHANGED <<confVars, cacheVars, passVars, loopVars, doneVars>>

\* FetchOne has returned to FetchOneString.
FetchOneStringReturn ==
    /\ Alive
    /\ cl.pc = "one" /\ cl.via = "FetchOneString"
    /\ cl' = [cl EXCEPT !.pc = "str", !.one = FetchOneString(cl.one)]
    /\ UNCHANGED <<confVars, cacheVars, passVars, loopVars, doneVars>>

\* The facade's method has returned to its caller.
FacadeReturn ==
    /\ Alive
    /\ \/ cl.pc = "one" /\ cl.via = "FetchOne"
       \/ cl.pc = "str"
    /\ cl' = IdleCaller
    /\ UNCHANGED <<confVars, cacheVars, passVars, loopVars, doneVars>>

\* New(0): one goroutine fetching single addresses through the facade,
\* the resolver failing or not, others seeding and removing entries.
InitFetchOne ==
    InitResolver(<< NewConfigOption(ConfigRefreshSleepTime, DurV(1)),
                    NewConfigOption(ConfigRefreshShuffle, BoolV(TRUE)) >>, 0, 0)

NextFetchOne ==
    \/ \E a \in Names, via \in {"FetchOne", "FetchOneString"} : FetchOneCall(a, via)
    \/ ResolverReturn
    \/ LookupStore
    \/ FetchOneReturn
    \/ FetchOneStringReturn
    \/ FacadeReturn
    \/ \E a \in Names, v \in AddVals : Add(a, v)
    \/ \E a \in Names : Remove(a)

SpecFetchOne == InitFetchOne /\ [][NextFetchOne]_vars

\* ------------------------------------------- a sequential pass under churn
\* A map-backed cache whose passes pause not at all or for MaxSleep, in
\* key order or shuffled, with no deadline or one of MaxTimeout, while other
\* goroutines add placeholders and remove names at any moment.
ChurnOptionLists ==
    { << NewConfigOption(ConfigRefreshSleepTime, DurV(d)),
         NewConfigOption(ConfigRefreshShuffle, BoolV(b)) >> :
        d \in {0, MaxSleep}, b \in BOOLEAN }

InitLinearChurn == \E options \in ChurnOptionLists : InitSimple(options)

NextLinearChurn ==
    \/ \E t \in {0, MaxTimeout} : RefreshCall(t)
    \/ LinearResolverReturn({NilErr, NoSuchHost})
    \/ LinearStore
    \/ LinearSelectTimer
    \/ LinearSelectDeadline
    \/ LinearStale
    \/ RefreshReturn
    \/ Tick
    \/ \E a \in Names : Add(a, <<>>)
    \/ \E a \in Names : Remove(a)

SpecLinearChurn == InitLinearChurn /\ [][NextLinearChurn]_vars

\* --------------------------------------------- BatchRefresh, called directly
\* BatchRefresh(cache, resolver, options...) called by the holder of a
\* map-backed cache between its Adds and Removes: with no window size,
\* with one of a wrong type, with a wrong one before a right one, and
\* with a right one.
BatchSizeOptions ==
    { <<>>,
      << NewConfigOption(ConfigRefreshBatchSize, BoolV(FALSE)) >>,
      << NewConfigOption(ConfigRefreshBatchSize, DurV(1)) >>,
      << NewConfigOption(ConfigRefreshBatchSize, DurV(1)),
         NewConfigOption(ConfigRefreshBatchSize, IntV(MaxBatch)) >>,
      << NewConfigOption(ConfigRefreshBatchSize, IntV(MaxBatch)) >> }

BatchCallOptionLists ==
    { << NewConfigOption(ConfigRefreshSleepTime, DurV(d)),
         NewConfigOption(ConfigRefreshShuffle, BoolV(FALSE)),
         NewConfigOption(ConfigRefreshTimeout, DurV(t)) >> \o size :
        d \in {0, MaxSleep}, t \in 0..MaxTimeout, size \in BatchSizeOptions }
    \cup BatchSizeOptions

BatchRefreshCall(options) ==
    /\ Alive
    /\ rp.pc = "idle" /\ TasksOver
    /\ oc.pc \in {"none", "done"}
    /\ LET o == BatchOptions(options) IN
       \E order \in Orders(Keys(cache), o.shuffle) :
          /\ rp' = BatchBegin(IdlePass, "caller", o, order)
          /\ tasks' = DispatchAll(NoTasks, BatchFirstWave(o, order))
          /\ obs' = [NoObs EXCEPT !.log = BatchFirstWave(o, order)]
    /\ oc' = OpenCall("BatchRefresh", options)
    /\ UNCHANGED <<conf, lru, cacheVars, callerVars, loopVars, doneVars>>

\* The caller receives (bool, error).
BatchRefreshReturn ==
    /\ Alive
    /\ rp.pc = "returned" /\ oc.pc = "call" /\ oc.fn = "BatchRefresh"
    /\ oc' = CallDone(oc, rp.complete, rp.err)
    /\ rp' = IdlePass
    /\ obs' = NoObs
    /\ UNCHANGED <<conf, lru, cacheVars, callerVars, tasks, loopVars, doneVars>>

NextBatchCall ==
    \/ \E options \in BatchCallOptionLists : BatchRefreshCall(options)
    \/ BatchRefreshReturn
    \/ BatchSelectTimer
    \/ BatchSelectDeadline
    \/ BatchWave
    \/ BatchJoin
    \/ TaskResolverReturn({NilErr})
    \/ TaskStore
    \/ Tick
    \/ \E a \in Names : QuietAdd(a, <<>>)
    \/ \E a \in Names : QuietRemove(a)

SpecBatchCall == InitCache /\ [][NextBatchCall]_vars

\* ------------------------------------------------- windows of any size
\* A map-backed cache constructed with RefreshType = RefreshBatch and any
\* int as RefreshBatchSize, zero and a negative one included, whose passes
\* run in key order without a deadline while other goroutines remove
\* names at any moment and add them between passes.  Every goroutine that
\* can take a step is scheduled, every resolver call returns (with
\* success) and time passes.
WindowOptionLists ==
    { << NewConfigOption(ConfigRefreshType, RTypeV(RefreshBatch)),
         NewConfigOption(ConfigRefreshBatchSize, IntV(k)),
         NewConfigOption(ConfigRefreshSleepTime, DurV(d)),
         NewConfigOption(ConfigRefreshShuffle, BoolV(FALSE)) >> :
        k \in (-1)..MaxBatch, d \in {0, 1} }

InitWindow == \E options \in WindowOptionLists : InitSimple(options)

NextWindow ==
    \/ RefreshCall(0)
    \/ BatchSelectTimer
    \/ BatchWave
    \/ BatchJoin
    \/ TaskResolverReturn({NilErr})
    \/ TaskStore
    \/ RefreshReturn
    \/ Tick
    \/ \E a \in Names : QuietAdd(a, <<>>)
    \/ \E a \in Names : Remove(a)

FairWindow ==
    /\ WF_vars(BatchSelectTimer) /\ WF_vars(BatchWave) /\ WF_vars(BatchJoin)
    /\ WF_vars(TaskResolverReturn({NilErr})) /\ WF_vars(TaskStore)
    /\ WF_vars(Tick)

SpecWindow == InitWindow /\ [][NextWindow]_vars /\ FairWindow

\* ------------------------------------------- a windowed pass under churn
\* A map-backed cache with a positive window size whose passes run in key
\* order, pausing not at all or for MaxSleep between waves, with no
\* deadline or one of MaxTimeout, while other goroutines add placeholders
\* and remove names at any moment; the resolver succeeds.
BatchChurnOptionLists ==
    { << NewConfigOption(ConfigRefreshType, RTypeV(RefreshBatch)),
         NewConfigOption(ConfigRefreshBatchSize, IntV(k)),
         NewConfigOption(ConfigRefreshSleepTime, DurV(d)),
         NewConfigOption(ConfigRefreshShuffle, BoolV(FALSE)) >> :
        k \in 1..MaxBatch, d \in {0, MaxSleep} }

InitBatchChurn == \E options \in BatchChurnOptionLists : InitSimple(options)

NextBatchChurn ==
    \/ \E t \in {0, MaxTimeout} : RefreshCall(t)
    \/ BatchSelectTimer
    \/ BatchSelectDeadline
    \/ BatchWave
    \/ BatchJoin
    \/ TaskResolverReturn({NilErr})
    \/ TaskStore
    \/ RefreshReturn
    \/ Tick
    \/ \E a \in Names : Add(a, <<>>)
    \/ \E a \in Names : Remove(a)

SpecBatchChurn == InitBatchChurn /\ [][NextBatchChurn]_vars

\* ------------------------------------- the facade with a per-pass deadline
\* NewFromConfig with AutoRefreshInterval > 0 and AutoRefreshTimeout > 0
\* around an unshuffled map-backed cache whose passes pause not at all or
\* for MaxSleep, which is longer than any of the deadlines; the holder of
\* the cache adds placeholders, and the facade may be closed.
InitFacadeTimeout ==
    \E d \in {0, MaxSleep}, rate \in 1..MaxRate, timeout \in 1..MaxTimeout :
       InitResolver(<< NewConfigOption(ConfigRefreshSleepTime, DurV(d)),
                       NewConfigOption(ConfigRefreshShuffle, BoolV(FALSE)) >>,
                    rate, timeout)

NextFacadeTimeout ==
    \/ NextFacadeLoop
    \/ NextFacadePass
    \/ LinearSelectDeadline
    \/ Tick
    \/ ResolverCloseDone
    \/ ResolverCloseCache
    \/ \E a \in Names : Add(a, <<>>)

FairFacadeTimeout == FairFacade /\ WF_vars(LinearSelectDeadline)

SpecFacadeTimeout == InitFacadeTimeout /\ [][NextFacadeTimeout]_vars /\ FairFacadeTimeout

\* ------------------------------------------------------- the table lock
\* Simple.lock made visible: Lookup's r.lock.Lock() and its upsert and
\* Unlock() are two steps of the calling goroutine, and every other
\* operation on the table, each a critical section of its own, waits while
\* the write lock is held.  LockHeldAt: the places of a Fetch or Lookup at
\* which the goroutine holds the write lock.
LockHeldAtResolve == {"resolve", "locked"}

LockHeldAt == {"locked"}

WriteLocked == cl.pc \in LockHeldAt

\* r.lock.Lock()
LookupLock ==
    /\ Alive
    /\ cl.pc = "store"
    /\ cl' = [cl EXCEPT !.pc = "locked"]
    /\ UNCHANGED <<confVars, cacheVars, passVars, loopVars, doneVars>>

\* r.cache[address] = ips; r.lock.Unlock(); return ips, nil
LookupUnlock ==
    /\ Alive
    /\ cl.pc = "locked"
    /\ cache' = LookupStored(cache, cl.name, cl.res.ips)
    /\ cl' = [cl EXCEPT !.pc = "ret", !.ret = [ips |-> cl.res.ips, err |-> NilErr]]
    /\ UNCHANGED <<confVars, passVars, loopVars, doneVars>>

LockedFetchCall(address) == ~WriteLocked /\ FetchCall(address)

LockedAdd(address, ips) == ~WriteLocked /\ Add(address, ips)

LockedRemove(address) == ~WriteLocked /\ Remove(address)

LockedPurge == ~WriteLocked /\ Purge

\* A second goroutine runs sequential passes, whose resolver is r.Lookup:
\* Keys, Contains and the upsert of Lookup take the lock.
LockedRefreshCall == ~WriteLocked /\ RefreshCall(0)

LockedLinearStale == ~WriteLocked /\ LinearStale

LockedLinearStore == ~WriteLocked /\ LinearStore

InitLock ==
    InitSimple(<< NewConfigOption(ConfigRefreshSleepTime, DurV(0)),
                  NewConfigOption(ConfigRefreshShuffle, BoolV(FALSE)) >>)

NextLock ==
    \/ \E a \in Names : LockedFetchCall(a)
    \/ \E a \in Names : LookupCall(a)
    \/ ResolverReturn
    \/ LookupLock
    \/ LookupUnlock
    \/ CallerReturn
    \/ \E a \in Names : LockedAdd(a, <<>>)
    \/ \E a \in Names : LockedRemove(a)
    \/ LockedPurge
    \/ LockedRefreshCall
    \/ LinearResolverReturn({NilErr})
    \/ LockedLinearStore
    \/ LinearSelectTimer
    \/ LockedLinearStale
    \/ RefreshReturn

SpecLock == InitLock /\ [][NextLock]_vars

\* ------------------------------------------- any accepted construction
\* A map-backed cache built by NewSimple from any list of up to MaxOptions
\* options that it accepts, drawn from the refresh types (the three named
\* ones and a RefreshType value that is none of them), window sizes,
\* a sleep time and a shuffle setting; then refreshed by one goroutine,
\* the others mutating the table between passes.
TypeOptions ==
    { NewConfigOption(ConfigRefreshType, RTypeV(ty)) :
        ty \in {RefreshOff, RefreshLinear, RefreshBatch, "RefreshNightly"} }
    \cup { NewConfigOption(ConfigRefreshBatchSize, IntV(k)) : k \in 1..MaxBatch }
    \cup { NewConfigOption(ConfigRefreshSleepTime, DurV(0)),
           NewConfigOption(ConfigRefreshShuffle, BoolV(FALSE)) }

TypeOptionLists == UNION { [1..n -> TypeOptions] : n \in 0..MaxOptions }

InitTypes == \E options \in TypeOptionLists : InitSimple(options)

NextTypes ==
    \/ RefreshCall(0)
    \/ LinearResolverReturn({NilErr})
    \/ LinearStore
    \/ LinearSelectTimer
    \/ LinearStale
    \/ BatchSelectTimer
    \/ BatchWave
    \/ BatchJoin
    \/ TaskResolverReturn({NilErr})
    \/ TaskStore
    \/ RefreshReturn
    \/ Tick
    \/ \E a \in Names : QuietAdd(a, <<>>)
    \/ \E a \in Names : QuietRemove(a)

SpecTypes == InitTypes /\ [][NextTypes]_vars

\* ------------------------------------------- a pass with nothing else
\* A map-backed cache of any refresh type whose Refresh is called with and
\* without a deadline and whose resolver may fail, while no other
\* operation runs: the table is seeded and pruned only when no pass is
\* under way and no goroutine of an earlier pass is left.
Still == rp.pc = "idle" /\ TasksOver

StillAdd(address, ips) == Still /\ Add(address, ips)

StillRemove(address) == Still /\ Remove(address)

StillOptionLists ==
    { << NewConfigOption(ConfigRefreshType, RTypeV(ty)),
         NewConfigOption(ConfigRefreshBatchSize, IntV(k)),
         NewConfigOption(ConfigRefreshSleepTime, DurV(d)),
         NewConfigOption(ConfigRefreshShuffle, BoolV(FALSE)) >> :
        ty \in {RefreshOff, RefreshLinear, RefreshBatch},
        k \in 1..MaxBatch, d \in {0, MaxSleep} }

InitStill == \E options \in StillOptionLists : InitSimple(options)

NextStill ==
    \/ \E t \in {0, MaxTimeout} : RefreshCall(t)
    \/ LinearResolverReturn({NilErr, NoSuchHost})
    \/ LinearStore
    \/ LinearSelectTimer
    \/ LinearSelectDeadline
    \/ LinearStale
    \/ BatchSelectTimer
    \/ BatchSelectDeadline
    \/ BatchWave
    \/ BatchJoin
    \/ TaskResolverReturn({NilErr, NoSuchHost})
    \/ TaskStore
    \/ RefreshReturn
    \/ Tick
    \/ \E a \in Names, v \in AddVals : StillAdd(a, v)
    \/ \E a \in Names : StillRemove(a)

SpecStill == InitStill /\ [][NextStill]_vars

\* ================================================================ claims

\* C1: a Fetch of a name that is not resident, with a resolver that
\* succeeds, calls the resolver exactly once and returns the resolver's
\* addresses, and a Get of that name right after the Fetch returns gives
\* (those addresses, true).
C1_FetchMiss ==
    [][ ( /\ cl.pc = "store" /\ cl'.pc = "ret"
          /\ cl'.op = "Fetch" /\ ~cl'.resident )
        => ( /\ cl'.ncalls = 1
             /\ cl'.res.err = NilErr
             /\ cl'.ret = [ips |-> cl'.res.ips, err |-> NilErr]
             /\ Get(cache', cl'.name) = <<cl'.res.ips, TRUE>> ) ]_vars

C1_Witness ==
    /\ cl.pc = "ret" /\ cl.op = "Fetch" /\ ~cl.resident /\ cl.ret.err = NilErr
    /\ cl.ncalls = 1
    /\ Get(cache, cl.name) = <<IPsOf(cl.name), TRUE>>

\* C2: a Fetch of a resident name, a placeholder (empty list) included,
\* returns the stored value with a nil error in that one step, without a
\* resolver call and without changing the table; a Fetch repeated on the
\* resulting table returns the same.
C2_FetchHit ==
    [][ ( /\ cl.pc = "idle" /\ cl'.pc # "idle" /\ cl'.op = "Fetch"
          /\ cl'.name \in DOMAIN cache )
        => ( /\ cl'.pc = "ret"
             /\ cl'.ret = [ips |-> cache[cl'.name], err |-> NilErr]
             /\ cl'.ncalls = 0
             /\ cache' = cache
             /\ FetchProbe(cache', cl'.name).pc = "ret"
             /\ FetchProbe(cache', cl'.name).ret = cl'.ret ) ]_vars

C2_Witness ==
    /\ cl.pc = "ret" /\ cl.op = "Fetch" /\ cl.resident /\ cl.ncalls = 0
    /\ cl.ret = [ips |-> <<>>, err |-> NilErr]
    /\ cl.name \in DOMAIN cache /\ cache[cl.name] = <<>>

\* C3: when the resolver fails, the Lookup (also the one a Fetch miss
\* makes) ends at once with nil addresses and the resolver's own error, and
\* no step of the call touches the table: entering the call and the failed
\* resolver call both leave it as it was.
C3_ResolverFails ==
    [][ /\ ( (cl.pc = "resolve" /\ cl' # cl /\ cl'.res.err # NilErr)
             => ( /\ cl'.pc = "ret"
                  /\ cl'.ret = [ips |-> <<>>, err |-> cl'.res.err]
                  /\ cache' = cache ) )
        /\ ( (cl.pc = "idle" /\ cl'.pc = "resolve") => cache' = cache ) ]_vars

C3_Witness ==
    /\ cl.pc = "ret" /\ cl.ret = [ips |-> <<>>, err |-> NoSuchHost]
    /\ cl.op = "Lookup" /\ cl.resident
    /\ cl.name \in DOMAIN cache /\ cache[cl.name] = <<9, 8>>

\* C4: Lookup calls the resolver whether or not the name is resident, and
\* when the resolver succeeds the entry is overwritten: Get then returns
\* (the new addresses, true).
C4_LookupOverwrites ==
    [][ /\ ( (cl.pc = "idle" /\ cl'.pc # "idle" /\ cl'.op = "Lookup")
             => (cl'.pc = "resolve" /\ cl'.ncalls = 0) )
        /\ ( (cl.pc = "store" /\ cl'.pc = "ret" /\ cl'.op = "Lookup")
             => ( /\ cl'.ncalls = 1
                  /\ cl'.ret = [ips |-> cl'.res.ips, err |-> NilErr]
                  /\ Get(cache', cl'.name) = <<cl'.res.ips, TRUE>> ) ) ]_vars

C4_Witness ==
    /\ cl.pc = "ret" /\ cl.op = "Lookup" /\ cl.resident /\ cl.ncalls = 1
    /\ cl.ret = [ips |-> IPsOf(cl.name), err |-> NilErr]
    /\ Get(cache, cl.name) = <<IPsOf(cl.name), TRUE>>

\* C5: a sequential pass with shuffling off, sleep time d and a deadline
\* t with 0 < t < d, over two or more keys: it starts with the sorted keys
\* of the table and looks up the first; every step of the pass calls the
\* resolver for no key but the first and writes no entry but the first;
\* and when the pass returns, the first key is the one key it has called
\* the resolver for, and it reports incomplete.
C5_Pre(p) ==
    /\ p.strategy = "LinearRefresh" /\ ~p.shuffle
    /\ p.timeout > 0 /\ p.timeout < p.sleep
    /\ Len(p.addresses) >= 2

C5_DeadlineCutsPass ==
    [][ /\ ( (rp.pc = "idle" /\ rp'.pc # "idle" /\ C5_Pre(rp'))
             => ( /\ rp'.addresses = Sorted(DOMAIN cache)
                  /\ rp'.pc = "lookup" /\ rp'.i = 1 /\ obs'.log = <<>> ) )
        /\ ( (C5_Pre(rp) /\ rp.pc # "returned" /\ rp' # rp)
             => ( /\ obs'.log \in {<<>>, <<rp.addresses[1]>>}
                  /\ \A a \in Names \ {rp.addresses[1]} :
                        Get(cache', a) = Get(cache, a) ) )
        /\ ( (C5_Pre(rp) /\ rp.pc # "returned" /\ rp'.pc = "returned")
             => ( /\ obs'.log = <<rp.addresses[1]>>
                  /\ ~rp'.complete /\ rp'.err = NoError ) ) ]_vars

C5_Witness ==
    /\ rp.pc = "returned" /\ C5_Pre(rp) /\ ~rp.complete
    /\ Len(rp.addresses) = 3
    /\ obs.log = <<rp.addresses[1]>>
    /\ Get(cache, rp.addresses[1]) = <<IPsOf(rp.addresses[1]), TRUE>>
    /\ Get(cache, rp.addresses[2]) = << <<>>, TRUE>>
    /\ Get(cache, rp.addresses[3]) = << <<>>, TRUE>>

\* C6: a sequential pass with deadline 0, a resolver that succeeds and no
\* concurrent mutation: when it returns it has called the resolver for
\* every key of its snapshot exactly once, in snapshot order (shuffled or
\* not), the snapshot being the resident keys; every resident entry holds
\* its resolved value; and the strategy reports complete.
C6_FullPass ==
    ( rp.pc = "returned" /\ rp.strategy = "LinearRefresh" /\ rp.timeout = 0 )
    => ( /\ rp.complete /\ rp.err = NoError
         /\ obs.log = rp.addresses
         /\ Len(obs.log) = Cardinality(DOMAIN cache)
         /\ { obs.log[k] : k \in 1..Len(obs.log) } = DOMAIN cache
         /\ \A a \in DOMAIN cache : cache[a] = IPsOf(a) )

C6_Witness ==
    /\ rp.pc = "returned" /\ rp.strategy = "LinearRefresh" /\ rp.timeout = 0
    /\ rp.shuffle /\ rp.sleep > 0
    /\ Len(rp.addresses) = 3 /\ rp.addresses # Sorted(DOMAIN cache)
    /\ rp.complete
    /\ \A a \in DOMAIN cache : cache[a] = IPsOf(a)

\* C7: at the moment BatchRefresh returns, by any exit path, every lookup
\* it dispatched has completed: no goroutine of the pass is still in the
\* resolver or about to store.
C7_NoLeakedWork ==
    ( rp.pc = "returned" /\ rp.strategy = "BatchRefresh" ) => TasksOver

\* C8: with deadline 0, a positive window size and all snapshot keys
\* resident throughout, BatchRefresh dispatches a lookup for every key of
\* its snapshot exactly once across its waves (the keys counted so far are
\* the keys dispatched so far, in snapshot order) and returns true.
C8_Pre(p) == p.strategy = "BatchRefresh" /\ p.timeout = 0 /\ p.batch > 0

C8_FullBatchPass ==
    /\ ( C8_Pre(rp) /\ InPass )
       => obs.log = SubSeq(rp.addresses, 1, rp.total)
    /\ ( C8_Pre(rp) /\ rp.pc = "returned" )
       => ( /\ rp.complete /\ rp.err = NoError
            /\ obs.log = rp.addresses
            /\ \A a \in Snapshot :
                  Cardinality({ k \in 1..Len(obs.log) : obs.log[k] = a }) = 1
            /\ \A a \in Snapshot : tasks[a] # "none" )

C8_Witness ==
    /\ C8_Pre(rp) /\ rp.pc = "returned" /\ rp.complete
    /\ rp.batch = 2 /\ Len(rp.addresses) = 3
    /\ rp.shuffle /\ rp.addresses # Sorted(Snapshot)
    /\ obs.log = rp.addresses
    /\ TasksOver

\* C9: if Close is called on a Simple back-end while a sequential Refresh
\* is waiting between two lookups, the pass starts no further lookup after
\* the Close: a pass under way on a closed back-end never enters the
\* resolver again.
C9_CloseInterruptsPass ==
    [][ ( sdone = "closed" /\ rp.strategy = "LinearRefresh" /\ InPass )
        => /\ ~( rp.pc # "lookup" /\ rp'.pc = "lookup" )
           /\ obs'.log = obs.log ]_vars

C11_EmptyRefresh ==
    [][ ( rp.pc = "idle" /\ rp'.pc # "idle" /\ cache = EmptyCache )
        => ( /\ rp'.pc = "returned"
             /\ rp'.complete /\ rp'.err = NoError
             /\ rp'.strategy \in {"NoRefresh", "LinearRefresh", "BatchRefresh"}
             /\ obs'.log = <<>> /\ tasks' = NoTasks
             /\ cache' = EmptyCache ) ]_vars

C11_Witness ==
    /\ rp.pc = "returned" /\ rp.strategy = "BatchRefresh"
    /\ rp.timeout > 0 /\ rp.sleep > 0
    /\ cache = EmptyCache /\ rp.addresses = <<>>
    /\ rp.complete /\ rp.err = NoError
    /\ obs.log = <<>> /\ tasks = NoTasks

\* C12: Purge empties the cache whatever it held: when Purge returns, with
\* no concurrent writer, Len() is 0 and Get of every name is not-found.
C12_PurgeEmpties ==
    [][ PurgeCall
        => ( /\ Len_(cache') = 0
             /\ \A a \in Names : Get(cache', a) = << <<>>, FALSE >>
             /\ \A a \in Names : ~Contains(cache', a) ) ]_vars

C12_Witness ==
    /\ cl.pc = "ret" /\ cl.op = "Purge" /\ cl.resident
    /\ Len_(cache) = 0

\* C13: Remove changes only its own key: on an absent name the whole cache
\* is unchanged; on a resident name exactly that name becomes absent, Len
\* decreases by one, and every other entry is unchanged.  Remove returns
\* nothing, so no error is raised either way.
C13_RemoveFrame ==
    [][ \A a \in Names :
          RemoveCall(a)
          => ( /\ ~Contains(cache, a) => cache' = cache
               /\ Contains(cache, a)
                  => ( /\ ~Contains(cache', a)
                       /\ Len_(cache') = Len_(cache) - 1 )
               /\ \A b \in Names \ {a} : Get(cache', b) = Get(cache, b)
               /\ cl'.ret = NoResult /\ cl'.ncalls = 0 ) ]_vars

C13_Witness ==
    /\ cl.pc = "ret" /\ cl.op = "Remove" /\ cl.resident
    /\ ~Contains(cache, cl.name)
    /\ Len_(cache) = 2
    /\ \E b \in DOMAIN cache : cache[b] = IPsOf(b)

\* C14: Add is an unconditional upsert: after Add(name, addresses),
\* Get(name) returns (addresses, true) whether or not name was resident,
\* the resolver is not invoked, and every other entry is unchanged.
C14_AddUpserts ==
    [][ \A a \in Names, v \in AddVals :
          AddCall(a, v)
          => ( /\ Get(cache', a) = <<v, TRUE>>
               /\ cl'.ncalls = 0 /\ cl'.res = NoResult
               /\ \A b \in Names \ {a} : Get(cache', b) = Get(cache, b) ) ]_vars

C14_Witness ==
    /\ cl.pc = "ret" /\ cl.op = "Add" /\ cl.resident
    /\ Get(cache, cl.name) = << <<9, 8>>, TRUE >>
    /\ \E b \in DOMAIN cache : b # cl.name /\ cache[b] = IPsOf(b)

\* C15: after any sequence of Add, Remove, Lookup, Fetch and Purge, Keys()
\* lists the resident names in strictly ascending order without
\* duplicates, exactly the names for which Contains and Get report
\* present, and Len() is the length of that list.
C15_KeysSorted ==
    LET k == Keys(cache) IN
    /\ \A i, j \in 1..Len(k) : i < j => k[i] < k[j]
    /\ { k[i] : i \in 1..Len(k) } = { a \in Names : Contains(cache, a) }
    /\ { k[i] : i \in 1..Len(k) } = { a \in Names : Get(cache, a)[2] }
    /\ Len_(cache) = Len(k)

C15_Witness ==
    /\ cl.pc = "ret" /\ cl.op = "Remove" /\ cl.resident /\ cl.name = 2
    /\ Keys(cache) = <<1, 3>>
    /\ cache[1] = IPsOf(1) /\ cache[3] = <<9, 8>>

\* The keys each receiver has a case for, and the type each key wants.
Recognized(fn) ==
    CASE fn \in {"NewSimple", "Simple.config"} ->
            { ConfigResolver, ConfigRefreshShuffle, ConfigRefreshSleepTime,
              ConfigRefreshType, ConfigRefreshBatchSize }
      [] fn \in {"NewLRU", "LRU.config"} ->
            { ConfigResolver, ConfigRefreshShuffle, ConfigRefreshSleepTime,
              ConfigAllowRefresh, ConfigItemTTL, ConfigSize }
      [] fn = "LinearRefresh" ->
            { ConfigRefreshShuffle, ConfigRefreshSleepTime, ConfigRefreshTimeout }
      [] fn = "BatchRefresh" ->
            { ConfigRefreshShuffle, ConfigRefreshSleepTime, ConfigRefreshTimeout,
              ConfigRefreshBatchSize }
      [] OTHER -> {}

Wanted(key) ==
    CASE key = ConfigResolver -> "ResolverFunc"
      [] key \in {ConfigRefreshShuffle, ConfigAllowRefresh} -> "bool"
      [] key \in {ConfigRefreshSleepTime, ConfigRefreshTimeout, ConfigItemTTL} -> "duration"
      [] key = ConfigRefreshType -> "RefreshType"
      [] key \in {ConfigRefreshBatchSize, ConfigSize} -> "int"
      [] OTHER -> "none"

Unknown(fn, o) == o.Key \notin Recognized(fn)
WrongType(fn, o) == o.Key \in Recognized(fn) /\ o.Value.t # Wanted(o.Key)
Valid(fn, o) == ~Unknown(fn, o) /\ ~WrongType(fn, o)

\* What the receiver's pass through the list lets by: BatchRefresh has
\* applied RefreshBatchSize before and does not look at its value again.
Accepted(fn, o) ==
    \/ Valid(fn, o)
    \/ fn = "BatchRefresh" /\ o.Key = ConfigRefreshBatchSize

\* The checks NewLRU and BatchRefresh make before they go through the list.
Required(fn, options) ==
    CASE fn = "NewLRU" ->
            /\ IsIn(ConfigSize, options).ok
            /\ IsIn(ConfigSize, options).v.t = "int"
            /\ IsIn(ConfigItemTTL, options).ok
                 => IsIn(ConfigItemTTL, options).v.t = "duration"
            /\ ~IsIn(ConfigItemTTL, options).ok
                 => IsIn(ConfigSize, options).v.n >= 1
      [] fn = "BatchRefresh" ->
            /\ IsIn(ConfigRefreshBatchSize, options).ok
            /\ IsIn(ConfigRefreshBatchSize, options).v.t = "int"
      [] OTHER -> TRUE

Called == oc.pc = "call" /\ oc'.pc = "done"

\* C16 as stated: an option whose key the receiver does not recognize
\* always yields exactly ErrorConfigKeyUnsupported, whatever other options
\* accompany it.
C16_UnsupportedAlways ==
    [][ ( Called /\ \E i \in 1..Len(oc.options) : Unknown(oc.fn, oc.options[i]) )
        => oc'.err = ErrorConfigKeyUnsupported ]_vars

\* C16, amended: a call given an option with an unrecognized key fails (no
\* instance, or false, and an error); the error is exactly
\* ErrorConfigKeyUnsupported if and only if that option is the first
\* failure: the receiver's up-front checks of its required options pass
\* and the receiver accepts every option before it in the list.  For a
\* config applier, which takes one option, that is always.
C16_UnsupportedFirstFailure ==
    [][ \A i \in 1..Len(oc.options) :
          ( /\ Called
            /\ Unknown(oc.fn, oc.options[i])
            /\ \A j \in 1..(i - 1) : ~Unknown(oc.fn, oc.options[j]) )
          => ( /\ oc'.err # NoError
               /\ oc.fn \notin {"Simple.config", "LRU.config"} => ~oc'.ok
               /\ conf' = conf /\ lru' = lru
               /\ oc'.err = ErrorConfigKeyUnsupported
                  <=> ( /\ Required(oc.fn, oc.options)
                        /\ \A j \in 1..(i - 1) : Accepted(oc.fn, oc.options[j]) ) ) ]_vars

C16_Witness ==
    /\ oc.pc = "done" /\ oc.fn = "NewLRU"
    /\ oc.options = << NewConfigOption(ConfigSize, IntV(2)),
                       NewConfigOption(ConfigRefreshShuffle, BoolV(FALSE)),
                       NewConfigOption(ConfigNotAnOption, IntV(5)) >>
    /\ ~oc.ok /\ oc.err = ErrorConfigKeyUnsupported

\* C17: NewLRU without CacheSize returns no instance and the
\* missing-required-option error, whatever else it is given: unsupported
\* keys and wrongly typed values are not looked at before.
C17_SizeRequiredFirst ==
    [][ ( Called /\ oc.fn = "NewLRU" /\ ~IsIn(ConfigSize, oc.options).ok )
        => ( /\ ~oc'.ok
             /\ oc'.err = RequiredError(ConfigSize)
             /\ lru' = lru ) ]_vars

C17_Witness ==
    /\ oc.pc = "done" /\ oc.fn = "NewLRU"
    /\ Len(oc.options) = 2
    /\ Unknown("NewLRU", oc.options[1]) /\ WrongType("NewLRU", oc.options[2])
    /\ ~oc.ok /\ oc.err = RequiredError(ConfigSize) /\ ~lru.made

C19_LRUTakesStrategy ==
    [][ ( /\ Called /\ oc.fn = "NewLRU"
          /\ oc.options = << NewConfigOption(ConfigSize, IntV(2)),
                             NewConfigOption(ConfigRefreshType, RTypeV(RefreshBatch)),
                             NewConfigOption(ConfigRefreshBatchSize, IntV(1)) >> )
        => ( oc'.ok /\ oc'.err = NoError /\ lru'.made ) ]_vars


\* C20: on a bounded evicting cache constructed with AllowRefresh = false,
\* a Refresh with any deadline returns at once as a no-op: it takes no
\* snapshot of the keys, calls the resolver for no name and leaves the
\* cache and its configuration as they were; no lookup, wait or store of a
\* pass ever exists on such a cache.
C20_DeclinedRefresh ==
    [][ ~lru.conf.allowRefresh =>
          /\ ~InPass'
          /\ obs'.log = <<>>
          /\ \A t \in 0..MaxTimeout :
                LRURefreshCall(t) =>
                  /\ rp'.pc = "returned"
                  /\ rp'.addresses = <<>>
                  /\ lru' = lru
          /\ LRURefreshReturn => rp' = IdlePass /\ lru' = lru ]_vars

C20_Witness ==
    /\ lru.made /\ ~lru.conf.allowRefresh
    /\ LRUFull(lru) /\ Len_(lru.cache) >= 2
    /\ rp.strategy = "LRU.Refresh" /\ rp.pc = "returned"
    /\ rp.timeout > 0
    /\ \A a \in DOMAIN lru.cache : lru.cache[a] = <<>>


\* C21: the Off strategy, on any table and with any options, returns
\* (true, nil) in the step that calls it: it takes no snapshot of the keys,
\* calls the resolver for no name, dispatches nothing and never waits; and
\* a map-backed cache configured with RefreshType = RefreshOff runs it on
\* Refresh, every entry being the same after the call and after its return.
C21_OffDoesNothing ==
    [][ /\ conf.refreshType = RefreshOff => conf.refresh = "NoRefresh"
        /\ ( rp.pc = "idle" /\ rp'.pc # "idle"
             /\ (conf.refreshType = RefreshOff \/ oc'.fn = "NoRefresh") )
           => ( /\ rp'.strategy = "NoRefresh" /\ rp'.pc = "returned"
                /\ rp'.complete /\ rp'.err = NoError
                /\ rp'.addresses = <<>> /\ obs'.log = <<>> /\ tasks' = NoTasks
                /\ oc'.fn = "NoRefresh" => oc'.ok /\ oc'.err = NoError
                /\ cache' = cache )
        /\ ( rp.strategy = "NoRefresh" /\ rp' # rp )
           => ( rp' = IdlePass /\ cache' = cache ) ]_vars

C21_Witness ==
    /\ conf.refreshType = RefreshOff
    /\ rp.strategy = "NoRefresh" /\ rp.pc = "returned" /\ rp.owner = "caller"
    /\ oc.pc = "none"
    /\ Len_(cache) = MaxNames
    /\ \E a, b \in DOMAIN cache : cache[a] = <<>> /\ cache[b] = <<9, 8>>


\* C22: a facade constructed with a refresh interval of zero has no
\* background loop, at construction and ever after: every pass on its
\* back-end is begun by a caller's Refresh or RefreshTimeout, and the
\* resolver is called by no pass but such a one.
C22_NoLoopAtZero ==
    [][ lp.rate = 0 =>
          /\ lp.pc = "off" /\ lp' = lp
          /\ ( rp.pc = "idle" /\ rp'.pc # "idle" )
             => ( /\ rp'.owner = "caller"
                  /\ ResolverRefresh \/ \E t \in 1..MaxTimeout : ResolverRefreshTimeout(t) )
          /\ obs'.log # obs.log /\ obs'.log # <<>> => rp.owner = "caller" ]_vars

C22_Witness ==
    /\ lp.rate = 0 /\ lp.pc = "off"
    /\ rp.pc = "returned" /\ rp.owner = "caller" /\ ~rp.complete
    /\ Len(rp.addresses) = MaxNames
    /\ obs.log = <<rp.addresses[1]>>
    /\ cache[rp.addresses[1]] = IPsOf(rp.addresses[1])
    /\ \A k \in 2..MaxNames : cache[rp.addresses[k]] = <<>>


\* C23: Close is a one-time operation.  The first Close of a facade
\* closes its signal, closes its back-end and returns nil; the first Close
\* of a map-backed cache closes its signal and returns nil.  A Close of a
\* facade or of a map-backed cache whose signal is already closed returns
\* no value: it faults on the close of the closed signal, and nothing
\* runs after the fault.
C23_CloseOnce ==
    [][ /\ ResolverCloseDone => rdone.ch = "open" /\ rdone'.ch = "closed"
        /\ ( ResolverCloseCache /\ sdone = "open" )
           => ( sdone' = "closed" /\ rdone'.ret = NilErr )
        /\ ResolverCloseAgain
           => ( /\ rdone.ch = "closed" /\ rdone'.ch = "panic"
                /\ rdone'.ret = rdone.ret /\ rdone'.pc = rdone.pc )
        /\ ( SimpleCloseCall /\ sdone = "open" )
           => ( sdone' = "closed" /\ cl'.pc = "ret" /\ cl'.ret.err = NilErr )
        /\ ( SimpleCloseCall /\ sdone = "closed" )
           => ( sdone' = "panic" /\ cl'.pc = "panic" )
        /\ ( ResolverCloseCache /\ sdone = "closed" )
           => ( sdone' = "panic" /\ rdone'.ret = "none" )
        /\ ~Alive => vars' = vars ]_vars

C23_Witness ==
    /\ rdone.pc = "closed" /\ rdone.ret = NilErr
    /\ rdone.ch = "panic" /\ sdone = "closed"
    /\ lp.rate > 0 /\ lp.pc = "refresh" /\ InPass

\* C24: Close of the facade closes the back-end it owns: each Close that
\* returns has first closed the facade's signal, then called the
\* back-end's Close, once, and returns what that call returned (nil); the
\* facade closes the back-end at no other step.
C24_ClosePropagates ==
    [][ /\ ResolverCloseDone
           => ( sdone' = sdone /\ rdone'.pc = "cache" /\ rdone'.ret = "none" )
        /\ ResolverCloseCache
           => ( /\ rdone.ch = "closed" /\ rdone'.ch = "closed"
                /\ sdone' = Closed(sdone)
                /\ rdone'.pc = "closed"
                /\ rdone'.ret = IF sdone' = "closed" THEN NilErr ELSE "none" )
        /\ ( rdone'.pc = "closed" /\ rdone.pc # "closed" ) => rdone.pc = "cache"
        /\ ( rdone.pc = "cache" /\ rdone'.pc # "cache" ) => rdone'.pc = "closed"
        /\ rdone.ret # "none" => ( rdone.pc = "closed" /\ sdone # "open" )
        /\ sdone' # sdone => ( rdone.pc = "cache" \/ cl'.op = "Close" ) ]_vars

C24_Witness ==
    /\ rdone.pc = "closed" /\ rdone.ret = NilErr
    /\ rdone.ch = "closed" /\ sdone = "closed"
    /\ cl = IdleCaller
    /\ lp.rate > 0 /\ lp.pc = "exited" /\ lp.passes = 1
    /\ Len_(cache) >= 2


\* C25: FetchOne returns the first address of the list Fetch returned,
\* with a nil error, and FetchOneString the string of that address.  When
\* the entry is resident with an empty list, Fetch calls no resolver and
\* they return (nil, nil) and ("", nil).  When Fetch returns an error they
\* return (nil, that error) and ("", that error).
C25_FetchOne ==
    [][ /\ FetchOneReturn
           => ( /\ ( cl.ret.err = NilErr /\ cl.ret.ips # <<>> )
                   => cl'.one = [ip |-> <<cl.ret.ips[1]>>, str |-> "", err |-> NilErr]
                /\ ( cl.ret.err = NilErr /\ cl.ret.ips = <<>> )
                   => ( cl'.one = NoOne /\ cl.resident /\ cl.ncalls = 0 )
                /\ cl.ret.err # NilErr
                   => cl'.one = [ip |-> <<>>, str |-> "", err |-> cl.ret.err] )
        /\ FetchOneStringReturn
           => ( /\ cl'.one.ip = cl.one.ip /\ cl'.one.err = cl.one.err
                /\ cl'.one.str = IF cl.one.ip = <<>> THEN ""
                                 ELSE ToString(cl.ret.ips[1]) )
        /\ \A a \in Names, via \in {"FetchOne", "FetchOneString"} :
              ( FetchOneCall(a, via) /\ Get(cache, a) = << <<>>, TRUE >> )
              => ( cl'.pc = "ret" /\ cl'.ret = NoResult /\ cl'.ncalls = 0 ) ]_vars

C25_Witness ==
    /\ cl.via = "FetchOneString" /\ cl.pc = "str"
    /\ cl.resident /\ cl.ncalls = 0
    /\ cl.ret = [ips |-> <<9, 8>>, err |-> NilErr]
    /\ cl.one = [ip |-> <<9>>, str |-> "9", err |-> NilErr]


\* C26: in a sequential pass with a positive deadline, a pass that waits
\* between two lookups with its deadline expired starts no further lookup:
\* its next step is the return, reporting incomplete, also when the
\* inter-item delay is ready at the same moment (a delay of zero
\* included); a lookup that is running when the deadline expires runs to
\* its end.
C26_DeadlineStopsLookups ==
    [][ ( rp.strategy = "LinearRefresh" /\ rp.timeout > 0 /\ rp.dl = 0 )
        => ( /\ ( rp.pc = "select" /\ rp' # rp )
                => ( rp'.pc = "returned" /\ ~rp'.complete /\ rp'.err = NoError )
             /\ ( rp.pc = "lookup" /\ rp' # rp )
                => ( /\ obs'.log = Append(obs.log, rp.addresses[rp.i])
                     /\ rp'.pc = "returned" => rp'.complete ) ) ]_vars


\* C27: in a sequential pass (of LinearRefresh or of LRU.Refresh) a
\* snapshot key other than the first is looked up only from the STALE
\* loop, at a moment when Contains reports it present.  A key that is gone
\* when its turn comes is passed over with no resolver call and no further
\* delay (the loop goes straight to the next key), and when the list ends
\* while keys are passed over the pass ends, LinearRefresh reporting
\* complete.
PassCache == IF rp.strategy = "LRU.Refresh" THEN lru.cache ELSE cache

C27_SkipsEvictedKeys ==
    [][ rp.strategy \in {"LinearRefresh", "LRU.Refresh"} =>
          /\ ( rp.pc # "lookup" /\ rp'.pc = "lookup" /\ rp'.i >= 2 )
             => ( /\ rp.pc = "stale" /\ rp'.i = rp.i
                  /\ Contains(PassCache, rp.addresses[rp.i]) )
          /\ rp.pc = "stale" => rp'.pc \in {"stale", "lookup", "returned"}
          /\ ( LinearStale \/ LRUStale )
             => ( /\ obs'.log = obs.log
                  /\ rp'.addresses = rp.addresses
                  /\ Contains(PassCache, rp.addresses[rp.i])
                     => ( rp'.pc = "lookup" /\ rp'.i = rp.i )
                  /\ ( ~Contains(PassCache, rp.addresses[rp.i])
                       /\ rp.i < Len(rp.addresses) )
                     => ( rp'.pc = "stale" /\ rp'.i = rp.i + 1 )
                  /\ ( ~Contains(PassCache, rp.addresses[rp.i])
                       /\ rp.i = Len(rp.addresses) )
                     => ( rp'.pc = "returned" /\ rp'.complete /\ rp'.err = NoError ) )
          /\ Len(obs'.log) > Len(obs.log)
             => ( rp.pc = "lookup" /\ obs'.log = Append(obs.log, rp.addresses[rp.i]) ) ]_vars

C27_Witness ==
    /\ rp.strategy = "LinearRefresh" /\ rp.pc = "returned" /\ rp.complete
    /\ Len(rp.addresses) = MaxNames
    /\ obs.log = <<rp.addresses[1], rp.addresses[MaxNames]>>
    /\ DOMAIN cache = {rp.addresses[1], rp.addresses[MaxNames]}
    /\ \A a \in DOMAIN cache : cache[a] = IPsOf(a)


\* C28: a sequential pass (of LinearRefresh or of LRU.Refresh) over a
\* non-empty snapshot begins in its first lookup: no delay, no look at the
\* deadline and no Contains comes before it.  That lookup calls the
\* resolver for the first key whether or not the deadline has expired and
\* whether or not the key is still resident, so no such pass returns
\* without a resolver call for its first key.
C28_FirstKeyAtOnce ==
    [][ /\ ( rp.pc = "idle" /\ rp'.pc # "idle" /\ rp'.addresses # <<>>
             /\ rp'.strategy \in {"LinearRefresh", "LRU.Refresh"} )
           => ( rp'.pc = "lookup" /\ rp'.i = 1 /\ obs'.log = <<>> )
        /\ ( rp.strategy \in {"LinearRefresh", "LRU.Refresh"}
             /\ rp.pc = "lookup" /\ rp.i = 1 )
           => ( /\ ENABLED ( LinearResolverReturn({NilErr, NoSuchHost})
                             \/ LRUResolverReturn({NilErr, NoSuchHost}) )
                /\ rp'.pc # "lookup" => obs'.log = <<rp.addresses[1]>> )
        /\ ( rp'.strategy \in {"LinearRefresh", "LRU.Refresh"}
             /\ rp'.pc = "returned" /\ rp'.addresses # <<>> )
           => ( Len(obs'.log) >= 1 /\ obs'.log[1] = rp'.addresses[1] ) ]_vars

C28_Witness ==
    /\ rp.strategy = "LinearRefresh" /\ rp.pc = "returned" /\ ~rp.complete
    /\ rp.timeout > 0 /\ rp.sleep = 0
    /\ Len(rp.addresses) >= 2
    /\ obs.log = <<rp.addresses[1]>>
    /\ rp.addresses[1] \notin DOMAIN cache


\* C29: within one pass of LinearRefresh the lookups run one at a time and
\* in snapshot order: no goroutine is dispatched, the keys the resolver
\* has been called for appear in the order of the snapshot (shuffled or
\* not), none of them twice, and while the lookup of a key is running
\* every call made before it, for an earlier key, has returned.
PosOf(a) == CHOOSE k \in 1..Len(rp.addresses) : rp.addresses[k] = a

C29_OneAtATimeInOrder ==
    rp.strategy = "LinearRefresh" =>
      /\ tasks = NoTasks
      /\ \A j \in 1..Len(obs.log) :
            \E k \in 1..Len(rp.addresses) : rp.addresses[k] = obs.log[j]
      /\ \A j1, j2 \in 1..Len(obs.log) :
            j1 < j2 => PosOf(obs.log[j1]) < PosOf(obs.log[j2])
      /\ rp.pc = "lookup" => \A j \in 1..Len(obs.log) : PosOf(obs.log[j]) < rp.i
      /\ rp.pc = "store" => obs.log[Len(obs.log)] = rp.addresses[rp.i]
      /\ rp.pc \in {"select", "stale"}
            => \A j \in 1..Len(obs.log) : PosOf(obs.log[j]) < rp.i

C29_Witness ==
    /\ rp.strategy = "LinearRefresh" /\ rp.pc = "returned" /\ rp.complete
    /\ rp.shuffle /\ Len(rp.addresses) = MaxNames
    /\ rp.addresses[1] > rp.addresses[2]
    /\ obs.log = rp.addresses


\* C30: BatchRefresh called with no RefreshBatchSize option, or with one
\* whose (first) value is not an int, returns (false, error) in the step
\* that calls it: it has taken no snapshot of the keys, dispatched no
\* lookup and started no wait, and the table is as it was.  The error says
\* the option is required, or that its value has the wrong type.
BadBatchSize(options) ==
    \/ ~IsIn(ConfigRefreshBatchSize, options).ok
    \/ IsIn(ConfigRefreshBatchSize, options).v.t # "int"

C30_BatchSizeRequired ==
    [][ /\ ( rp.pc = "idle" /\ rp'.pc # "idle" /\ oc'.fn = "BatchRefresh"
             /\ BadBatchSize(oc'.options) )
           => ( /\ rp'.pc = "returned" /\ ~rp'.complete
                /\ rp'.err = IF IsIn(ConfigRefreshBatchSize, oc'.options).ok
                             THEN KeyError(ConfigRefreshBatchSize)
                             ELSE RequiredError(ConfigRefreshBatchSize)
                /\ rp'.addresses = <<>> /\ obs'.log = <<>> /\ tasks' = NoTasks
                /\ cache' = cache )
        /\ ( BatchRefreshReturn /\ BadBatchSize(oc.options) )
           => ( ~oc'.ok /\ oc'.err # NoError /\ oc'.err = rp.err
                /\ cache' = cache /\ tasks' = NoTasks ) ]_vars

C30_Witness ==
    /\ oc.pc = "call" /\ oc.fn = "BatchRefresh"
    /\ Len(oc.options) = 5 /\ BadBatchSize(oc.options)
    /\ IsIn(ConfigRefreshBatchSize, oc.options).ok
    /\ rp.pc = "returned" /\ rp.err = KeyError(ConfigRefreshBatchSize)
    /\ Len_(cache) = MaxNames
    /\ \E a \in DOMAIN cache : cache[a] = <<>>

\* C31: the windowed strategy requires a positive window size.  A Simple
\* is never constructed with a RefreshBatchSize below 1, and a call of
\* BatchRefresh with a window size below 1, on a table that holds names,
\* returns (false, error) without dispatching any lookup.
C31_PositiveWindowRequired ==
    [][ ( rp.pc = "idle" /\ rp'.pc # "idle" /\ rp'.strategy = "BatchRefresh"
          /\ conf.refreshBatchSize < 1 /\ Len_(cache) > 0 )
        => ( /\ rp'.pc = "returned" /\ ~rp'.complete /\ rp'.err # NoError
             /\ obs'.log = <<>> /\ tasks' = NoTasks ) ]_vars

\* C32: the first wave of BatchRefresh dispatches the first min(window, n)
\* keys of the snapshot.  In every later wave a lookup is dispatched only
\* for the snapshot key at the current position, only if Contains reports
\* it present, and only while fewer than window-size lookups have been
\* dispatched in the wave; a key found absent is passed over and leaves
\* the count of the wave as it was, so it never ends the wave.
WaveTurn == rp.strategy = "BatchRefresh" /\ rp.pc = "wave" /\ rp'.total = rp.total + 1

C32_WavesFillTheWindow ==
    [][ /\ ( rp.pc = "idle" /\ rp'.pc # "idle" /\ rp'.strategy = "BatchRefresh"
             /\ rp'.err = NoError )
           => ( /\ obs'.log = SubSeq(rp'.addresses, 1,
                                     Min(rp'.batch, Len(rp'.addresses)))
                /\ tasks' = DispatchAll(NoTasks, obs'.log) )
        /\ ( rp.strategy = "BatchRefresh" /\ rp.pc = "select" /\ rp'.pc = "wave" )
           => ( rp'.run = 0 /\ obs'.log = obs.log /\ tasks' = tasks )
        /\ ( WaveTurn /\ Contains(cache, rp.addresses[rp.total + 1]) )
           => ( /\ rp.run + 1 <= rp.batch
                /\ obs'.log = Append(obs.log, rp.addresses[rp.total + 1])
                /\ tasks' = Dispatch(tasks, rp.addresses[rp.total + 1])
                /\ rp'.pc = "wave" => rp'.run = rp.run + 1
                /\ rp'.pc = "select" => rp.run + 1 = rp.batch )
        /\ ( WaveTurn /\ ~Contains(cache, rp.addresses[rp.total + 1]) )
           => ( /\ obs'.log = obs.log /\ tasks' = tasks
                /\ rp'.pc \in {"wave", "join"}
                /\ rp'.pc = "wave" => rp'.run = rp.run )
        /\ ( rp.strategy = "BatchRefresh" /\ rp.pc \in {"select", "wave", "join"}
             /\ ~WaveTurn )
           => ( obs'.log = obs.log /\ rp'.run = rp.run ) ]_vars

C32_Witness ==
    /\ rp.strategy = "BatchRefresh" /\ rp.pc = "wave"
    /\ rp.batch = 1 /\ Len(rp.addresses) = MaxNames
    /\ rp.total = 2 /\ rp.run = 0
    /\ obs.log = <<rp.addresses[1]>>
    /\ ~Contains(cache, rp.addresses[2])

\* C33: BatchRefresh with well-formed options reports false exactly when
\* its deadline fired before the key list was fully walked.  Once the
\* deadline has fired while the pass is between two waves, the pass starts
\* no further wave: it returns (false, nil).  The deadline is the only
\* cause of false: a pass whose key set fits in the first window, and a
\* pass that has walked its key list, report true.
C33_DeadlineStopsWaves ==
    [][ ( rp.strategy = "BatchRefresh" /\ rp' # rp )
        => ( /\ ( rp.pc = "select" /\ rp.timeout > 0 /\ rp.dl = 0 )
                => ( rp'.pc = "returned" /\ ~rp'.complete /\ rp'.err = NoError )
             /\ ( rp.pc \in {"select", "wave", "join"} /\ rp'.pc = "returned"
                  /\ ~rp'.complete )
                => ( rp.pc = "select" /\ rp.dl = 0 /\ rp.total < Len(rp.addresses) )
             /\ ( rp.pc = "join" /\ rp'.pc = "returned" )
                => ( rp'.complete /\ rp.total >= Len(rp.addresses) ) ) ]_vars

\* C34: under auto-refresh on an unshuffled map-backed cache with a
\* per-pass deadline shorter than the inter-item delay, every pass of the
\* loop starts from the sorted keys, calls the resolver for no key but the
\* first and writes no entry but the first; when the loop's Refresh
\* returns from a pass over two or more keys the pass is incomplete, no
\* error or panic comes of it, the table is as the pass left it and the
\* loop waits a full interval again; and as long as the facade is open the
\* loop starts a pass again and again.
C34_Pre ==
    /\ lp.timeout > 0 /\ lp.timeout < conf.refreshSleepTime
    /\ ~conf.refreshShuffle

C34_TruncatedPassSwallowed ==
    /\ [][ C34_Pre =>
           /\ ( lp.pc = "wait" /\ lp'.pc = "refresh" )
              => ( /\ rp'.owner = "loop" /\ rp'.addresses = Keys(cache)
                   /\ rp'.timeout = lp.timeout /\ obs'.log = <<>> )
           /\ ( rp.owner = "loop" /\ InPass /\ rp' # rp )
              => ( /\ obs'.log \in {<<>>, <<rp.addresses[1]>>}
                   /\ \A a \in Names \ {rp.addresses[1]} :
                         Get(cache', a) = Get(cache, a) )
           /\ ( lp.pc = "refresh" /\ lp'.pc = "wait" )
              => ( /\ rp.err = NoError /\ rp' = IdlePass /\ cache' = cache
                   /\ lp'.iv = lp.rate /\ lp'.rate = lp.rate
                   /\ Len(rp.addresses) >= 2
                      => ( ~rp.complete /\ obs.log = <<rp.addresses[1]>> ) )
         ]_vars
    /\ []<>( ~C34_Pre \/ lp.pc = "refresh" \/ rdone.ch # "open" )

C34_Witness ==
    /\ C34_Pre /\ rdone.ch = "open"
    /\ lp.pc = "refresh" /\ rp.owner = "loop" /\ rp.pc = "returned"
    /\ ~rp.complete /\ rp.err = NoError
    /\ rp.addresses = <<1, 2, 3>> /\ obs.log = <<1>>
    /\ Get(cache, 1) = <<IPsOf(1), TRUE>>
    /\ Get(cache, 2) = << <<>>, TRUE>> /\ Get(cache, 3) = << <<>>, TRUE>>

\* C35: a facade has the one background loop its constructor started, and
\* none is started later.  While a pass driven by the loop is in progress
\* the loop is inside its call of Refresh, not waiting; the loop enters
\* Refresh only from its wait, when the interval has elapsed and no pass is
\* under way; and it begins to wait, for a full interval, only when that
\* call of Refresh has returned.
C35_LoopPassesNeverOverlap ==
    [][ /\ ( rp'.owner = "loop" /\ rp'.pc # "idle" ) => lp'.pc = "refresh"
        /\ ( lp.pc # "refresh" /\ lp'.pc = "refresh" )
           => ( /\ lp.pc = "wait" /\ lp.iv = 0
                /\ rp.pc = "idle" /\ rp'.owner = "loop" )
        /\ ( lp.pc # "wait" /\ lp'.pc = "wait" )
           => ( /\ lp.pc = "refresh" /\ rp.owner = "loop" /\ rp.pc = "returned"
                /\ rp'.pc \in {"idle", "panic"} /\ lp'.iv = lp.rate )
        /\ ( lp.pc = "wait" /\ lp'.pc = "wait" ) => lp'.iv <= lp.iv
        /\ lp.pc \in {"off", "exited"} => lp'.pc = lp.pc ]_vars

C35_Witness ==
    /\ rdone.ch = "open" /\ lp.pc = "wait" /\ lp.iv = 0 /\ rp.pc = "idle"
    /\ DOMAIN cache = Names
    /\ \A a \in Names : cache[a] = IPsOf(a)

\* C36: on the map-backed cache, while a Lookup or a Fetch that missed is
\* inside the resolver, the table lock is free: Add, Remove and Purge of
\* any name, the Keys of a starting pass, the Contains of a running one
\* and the upsert of another Lookup can take their step at once, and
\* another goroutine's Lookup may be inside the resolver or return from
\* it.  The lock is held only between Lookup's Lock and Unlock, where the
\* others wait.
C36_ResolverOutsideLock ==
    /\ cl.pc = "resolve"
       => ( /\ ~WriteLocked
            /\ \A a \in Names : ENABLED LockedAdd(a, <<>>)
            /\ \A a \in Names : ENABLED LockedRemove(a)
            /\ ENABLED LockedPurge
            /\ rp.pc = "idle" => ENABLED LockedRefreshCall
            /\ rp.pc = "stale" => ENABLED LockedLinearStale
            /\ rp.pc = "lookup" => ENABLED LinearResolverReturn({NilErr})
            /\ rp.pc = "store" => ENABLED LockedLinearStore )
    /\ cl.pc = "locked"
       => ( /\ WriteLocked /\ cl.res.err = NilErr
            /\ \A a \in Names : ~ENABLED LockedAdd(a, <<>>)
            /\ ~ENABLED LockedLinearStore )

C36_Witness ==
    /\ cl.pc = "resolve" /\ cl.op = "Lookup"
    /\ rp.pc = "lookup" /\ rp.addresses[rp.i] # cl.name
    /\ obs.log # <<>>
    /\ ~Contains(cache, cl.name)

\* C37: a refresh pass never makes resident again a name that has been
\* removed.  A name of the snapshot that is not resident when the pass
\* comes to write it was removed after the snapshot was taken and has not
\* been added, fetched or looked up since; so no step of the pass adds a
\* name to the table.
C37_RemovedStaysRemoved ==
    [][ ( rp.strategy = "LinearRefresh" /\ InPass /\ rp' # rp )
        => DOMAIN cache' \subseteq DOMAIN cache ]_vars

\* C38: for a Simple built by NewSimple from options it accepts, Refresh
\* never faults: whenever the stored strategy has returned, it has returned
\* no error, the stored function is BatchRefresh exactly when the stored
\* refresh type is RefreshBatch (the type by which Simple.Refresh chooses
\* the options it passes), and Simple.Refresh has not panicked.
C38_RefreshNeverFaults ==
    rp.pc \in {"returned", "panic"}
    => ( /\ rp.pc = "returned" /\ rp.err = NoError
         /\ conf.refresh = "BatchRefresh" <=> conf.refreshType = RefreshBatch )

\* C39: with no other operation running, no step taken while a refresh
\* pass or one of its goroutines is under way changes which names are
\* resident, whatever the strategy and the deadline, and when the strategy
\* has returned the resident names are those of its snapshot.  Only a
\* successful resolution is written: a failed one leaves the table as it
\* was, the key keeping its previous value, and the pass goes on to the
\* next key (or, after the last key, reports complete).
C39_PassKeepsKeySet ==
    [][ /\ ~Still => DOMAIN cache' = DOMAIN cache
        /\ ( rp.pc = "returned" /\ rp.strategy \in {"LinearRefresh", "BatchRefresh"} )
           => DOMAIN cache = Snapshot
        /\ rp'.pc = "store" => rp'.res.err = NilErr
        /\ \A n \in Names : tasks'[n] = "store" => Get(cache', n)[2]
        /\ ( rp.pc = "lookup" /\ rp' # rp /\ rp'.pc \notin {"lookup", "store"} )
           => ( /\ cache' = cache
                /\ rp'.pc \in {"select", "returned"}
                /\ rp'.pc = "select" => rp'.i = rp.i + 1
                /\ rp'.pc = "returned"
                   => ( rp'.complete /\ rp.i = Len(rp.addresses) ) )
        /\ ( \E n \in Names : tasks[n] = "lookup" /\ tasks'[n] = "done" )
           => ( cache' = cache /\ rp' = rp ) ]_vars

C39_Witness ==
    /\ rp.strategy = "LinearRefresh" /\ rp.pc = "returned" /\ rp.complete
    /\ rp.addresses = <<1, 2, 3>> /\ obs.log = <<1, 2, 3>>
    /\ Get(cache, 1) = <<IPsOf(1), TRUE>>
    /\ Get(cache, 2) = << <<9, 8>>, TRUE>>
    /\ Get(cache, 3) = <<IPsOf(3), TRUE>>

\* C40: with deadline 0, BatchRefresh terminates for every int window
\* size, zero and negative ones included, and every key set, provided
\* resolver calls return.  A pass that does not return at once has
\* dispatched at least one key; a wave is entered only with keys left to
\* walk and every turn of it advances the position by one key, never
\* past the end of the list; and every pass under way returns.
C40_BatchTerminates ==
    /\ [][ rp'.strategy = "BatchRefresh" =>
           /\ ( rp.pc = "idle" /\ rp'.pc = "select" )
              => ( rp'.total >= 1 /\ rp'.total < Len(rp'.addresses) )
           /\ ( rp.pc = "select" /\ rp'.pc # "select" )
              => ( rp'.pc = "wave" /\ rp'.total = rp.total )
           /\ ( rp.pc = "wave" /\ rp' # rp )
              => ( /\ rp'.total = rp.total + 1
                   /\ rp'.pc = "select" => rp'.total < Len(rp.addresses)
                   /\ rp'.pc = "wave" => rp'.total < Len(rp.addresses)
                   /\ rp'.pc = "join" => rp'.total = Len(rp.addresses) )
         ]_vars
    /\ ( ( rp.strategy = "BatchRefresh" /\ InPass ) ~> rp.pc = "returned" )

C40_Witness ==
    /\ rp.strategy = "BatchRefresh" /\ rp.pc = "returned" /\ rp.complete
    /\ rp.batch = -1 /\ rp.timeout = 0
    /\ Len(rp.addresses) = MaxNames /\ obs.log = rp.addresses
    /\ TasksOver

=============================================================================
